---- MODULE Spec2Model ----
(***************************************************************************)
(* Model of the motion-propagation code of inpaint-web:                    *)
(*   src/src/adapters/objectTracking.ts  SimpleObjectTracker               *)
(*   src/src/adapters/raftTracking.ts    RAFTMaskTracker, warpMask,        *)
(*                                       bilinearSample                    *)
(*   src/src/VideoEditor.tsx             processVideoWithOpenCV/Farneback  *)
(*   src/unnamed/part_000                extractFrames, processFrames      *)
(* Optional values (T | null) are sequences: None is <<>>, a present value *)
(* v is <<v>>.  Arrays are 1-based sequences; the operators that index     *)
(* them take the code's 0-based index.                                     *)
(***************************************************************************)
EXTENDS Integers, Sequences, FiniteSets, TLC

VARIABLES
    \* SimpleObjectTracker fields (objectTracking.ts:87-91)
    prevFrame, prevGray, prevPoints, bbox,
    \* the last initialize / track call of the sparse tracker, as its caller sees it
    initOutcome, trackOutcome, trackRet, prevTrackOutcome, prevTrackRet,
    \* locals of the last track call (objectTracking.ts:201-235) and the box before it
    boxBefore, goodPrev, goodNext, medianDx, medianDy,
    \* the frame handed to the last track call that read its frame
    trackFrame,
    \* number of track calls made on the sparse tracker
    nTracks,
    \* one warpMask call: its mask, its flow (array, flowWidth, flowHeight), its
    \* result, and whether it threw instead of returning
    wMask, wFlow, wOut, wThrew,
    \* one bilinearSample call: its buffer, its coordinates, its locals and result
    sImg, sX, sY, sOut,
    \* RAFTMaskTracker fields (raftTracking.ts:33-35)
    raftSession, previousFrame, currentMask,
    \* the mask handed to the last setReference call
    refMask,
    \* the last call on the dense tracker as its caller sees it, the two before it,
    \* and the number of track calls made
    raftOutcome, prevRaftOutcome, prev2RaftOutcome, nRaftTracks,
    \* the last track call on the dense tracker: the steps it went through, the
    \* tensors it fed to session.run, the frames it computed the flow between, and
    \* the mask it returned
    raftCall,
    \* VideoEditor state (VideoEditor.tsx:65-66) and the processing run: which
    \* orchestrator runs, where it is, the error it caught, runs started so far
    isProcessing, progress, runKind, runPc, runError, nRuns,
    \* extractFrames locals (part_000:74-83): times are in ticks, frames holds the
    \* capture time of each frame pushed
    duration, currentTime, frames,
    \* processFrames locals (part_000:143-146) and the position inside processFrame
    stepIndex, stepPhase, processedFrames,
    \* the frame indices handed to tracker.track, the values passed to onProgress,
    \* whether the run's tracker was initialized, and the cleanup calls of the run
    trackCalls, progressLog, trackerInitialized, cleanupCalls,
    \* two RAFTMaskTracker instances in one page: what the page offers, the ONNX
    \* runtime's global configuration object (ort.env), the fields of each instance, and the last call made (instance, operation)
    page, ortEnv, pairTrackers, pairLast,
    \* the frame loop of bounding-box mode (VideoEditor.tsx:275-299): where it is, the
    \* size of the video's frames, the box found in the drawn mask, the index of the
    \* frame in hand, the local currentBBox, the track calls made (frame index, box
    \* returned) and the inpaint calls made (frame index, mask); boxes are in
    \* coordinate units, SubPixel to the pixel
    boxPc, boxFrameSize, initialBox, boxIndex, currentBBox, boxTrackCalls, inpaintCalls,
    \* one FarnebackMaskTracker.computeOpticalFlow call and the warpMask call after it
    \* (raftTracking.ts:715-727): the size of the two gray frames, the Mat
    \* calcOpticalFlowFarneback filled, the field returned, the mask warped, the result
    fbGray, fbMat, fbFlow, fbMask, fbWarped,
    \* the native buffers (cv.Mat) of one SimpleObjectTracker or FarnebackMaskTracker:
    \* which class the tracker is, every buffer allocated so far (what it was
    \* allocated as, whether it is still allocated), the tracker's fields (buffer
    \* numbers), the last call (operation, how it ended, fields before it, buffers it
    \* created), whether a buffer was ever released twice or used after its release,
    \* and the number of calls made
    matKind, mats, matFields, matCall, matFaults, nMatCalls,
    \* the two process buttons (VideoEditor.tsx:485-498, Button.tsx): strokes drawn,
    \* the last input event on a button (button, event, its disabled prop, the
    \* handler invoked), whether an input came while a run was active and invoked
    \* nothing, and whether a run was ever started while another was active
    lineCount, lastInput, ignoredWhileProcessing, runsOverlapped,
    \* one extractFrames call (part_000:58-132): where it is, video.duration in ticks,
    \* the local currentTime (the number of frame intervals added and the rounding of
    \* the running sum), the capture time of each frame pushed, and the seeks issued
    exPc, exDuration, exTime, exFrames, exSeeks,
    \* one combineFramesToVideo call (part_000:182-282): where it is, frameDataUrls.length,
    \* frameIndex, the indices drawn, the MediaRecorder's state and its events to come,
    \* the chunks kept, the calls of recorder.stop(), and the promise
    cbPc, cbLength, frameIndex, cbDrawn, recorder, recorderEvents, chunks, cbStops, cbPromise

sparseVars == <<prevFrame, prevGray, prevPoints, bbox, initOutcome, trackOutcome,
                trackRet, prevTrackOutcome, prevTrackRet, boxBefore, goodPrev,
                goodNext, medianDx, medianDy, trackFrame, nTracks>>

warpVars == <<wMask, wFlow, wOut, wThrew>>

sampleVars == <<sImg, sX, sY, sOut>>

raftVars == <<raftSession, previousFrame, currentMask, refMask, raftOutcome,
              prevRaftOutcome, prev2RaftOutcome, nRaftTracks, raftCall>>

runVars == <<isProcessing, progress, runKind, runPc, runError, nRuns, duration,
             currentTime, frames, stepIndex, stepPhase, processedFrames, trackCalls,
             progressLog, trackerInitialized, cleanupCalls>>

pairVars == <<page, ortEnv, pairTrackers, pairLast>>

boxVars == <<boxPc, boxFrameSize, initialBox, boxIndex, currentBBox, boxTrackCalls, inpaintCalls>>

farnebackVars == <<fbGray, fbMat, fbFlow, fbMask, fbWarped>>

matVars == <<matKind, mats, matFields, matCall, matFaults, nMatCalls>>

buttonVars == <<lineCount, lastInput, ignoredWhileProcessing, runsOverlapped>>

extractVars == <<exPc, exDuration, exTime, exFrames, exSeeks>>

combineVars == <<cbPc, cbLength, frameIndex, cbDrawn, recorder, recorderEvents, chunks, cbStops, cbPromise>>

\* everything but the sparse tracker
nonSparseVars == <<warpVars, sampleVars, raftVars, runVars, pairVars, boxVars, farnebackVars, matVars, buttonVars, extractVars, combineVars>>

vars == <<sparseVars, warpVars, sampleVars, raftVars, runVars, pairVars, boxVars, farnebackVars, matVars, buttonVars, extractVars, combineVars>>

None == <<>>
Some(v) == <<v>>

Max(a, b) == IF a >= b THEN a ELSE b
Min(a, b) == IF a <= b THEN a ELSE b

(***************************************************************************)
(* Bounds of the sparse-tracker model.                                     *)
(***************************************************************************)
\* corners goodFeaturesToTrack may report (the code's cap is 200)
MaxPoints == 4
\* track calls per tracker
MaxTracks == 2

\* frame sizes <<cols, rows>>; every frame of one video has the same size
FrameSizes == {<<4, 3>>, <<2, 2>>}
\* boxes handed to initialize: inside the frame, overlapping its border, larger than it
BoxXs == {0, 1, 3}
BoxYs == {0, 2}
BoxWidths == {1, 2, 5}
BoxHeights == {1, 4}
Boxes == [x : BoxXs, y : BoxYs, width : BoxWidths, height : BoxHeights]
\* displacements calcOpticalFlowPyrLK may report for one point
Displacements == {<<0, 0>>, <<1, 0>>, <<0, 1>>, <<-1, -1>>}
\* one point's result: its status flag and displacement
LKResults == [status : {0, 1}, d : Displacements]

\* position of the i-th corner (0-based) goodFeaturesToTrack reports in a frame
Corner(i, size) == <<i % size[1], (i * 2) % size[2]>>
DetectedCorners(k, size) == [i \in 1..k |-> Corner(i - 1, size)]

(***************************************************************************)
(* cv.imread / cv.cvtColor: a Mat of the frame's size.                     *)
(***************************************************************************)
Frame(id, size) == [id |-> id, width |-> size[1], height |-> size[2]]
imread(frame) == [src |-> frame.id, cols |-> frame.width, rows |-> frame.height]

(***************************************************************************)
(* SimpleObjectTracker.initialize                                          *)
(***************************************************************************)
\* the bounding-box test of the filter loop
InsideBBox(p, b) ==
    /\ p[1] >= b.x
    /\ p[1] <= b.x + b.width
    /\ p[2] >= b.y
    /\ p[2] <= b.y + b.height

filteredPoints(allPoints, b) == SelectSeq(allPoints, LAMBDA p : InsideBBox(p, b))

Initialize(frame, b, allPoints) ==
    /\ bbox' = Some(b)
    /\ prevFrame' = Some(imread(frame))
    /\ prevGray' = Some(imread(frame))
    /\ prevPoints' = Some(filteredPoints(allPoints, b))
    /\ initOutcome' = "returned"
    /\ UNCHANGED <<trackOutcome, trackRet, prevTrackOutcome, prevTrackRet,
                   boxBefore, goodPrev, goodNext, medianDx, medianDy, trackFrame,
                   nTracks>>

(***************************************************************************)
(* SimpleObjectTracker.track                                               *)
(***************************************************************************)
\* nextPoints and status as calcOpticalFlowPyrLK fills them: one row per row of
\* prevPoints
nextPointsOf(points, lk) ==
    [i \in 1..Len(points) |-> <<points[i][1] + lk[i].d[1], points[i][2] + lk[i].d[2]>>]
statusOf(lk) == [i \in 1..Len(lk) |-> lk[i].status]

\* the loop over status.rows: the coordinates of the rows whose flag is 1, pushed
\* two numbers per point
RECURSIVE GoodCoords(_, _, _)
GoodCoords(points, status, i) ==
    IF i > Len(status) THEN <<>>
    ELSE (IF status[i] = 1 THEN <<points[i][1], points[i][2]>> ELSE <<>>)
         \o GoodCoords(points, status, i + 1)

\* the number the lost-tracking test compares goodNext.length with
LostThreshold == 4
TrackingLost(gNext) == Len(gNext) < LostThreshold

deltaX(gPrev, gNext) ==
    [i \in 1..(Len(gNext) \div 2) |-> gNext[2 * i - 1] - gPrev[2 * i - 1]]
deltaY(gPrev, gNext) ==
    [i \in 1..(Len(gNext) \div 2) |-> gNext[2 * i] - gPrev[2 * i]]

\* Array.prototype.sort((a, b) => a - b)
RECURSIVE Insert(_, _)
Insert(v, s) ==
    IF s = <<>> THEN <<v>>
    ELSE IF v <= Head(s) THEN <<v>> \o s
    ELSE <<Head(s)>> \o Insert(v, Tail(s))
RECURSIVE SortAsc(_)
SortAsc(s) == IF s = <<>> THEN <<>> ELSE Insert(Head(s), SortAsc(Tail(s)))

MinIndex(len) == 0
\* Math.floor(length / 2), the 0-based index the median is read at
MedianIndex(len) == len \div 2
Median(s) == SortAsc(s)[MedianIndex(Len(s)) + 1]

\* the new bbox.x and bbox.y
ShiftX(b, cols, dx) == Max(0, Min(cols - b.width, b.x + dx))
ShiftY(b, rows, dy) == Max(0, Min(rows - b.height, b.y + dy))

\* track on a tracker that holds no reference: returns null
TrackNull ==
    /\ prevGray = None \/ prevPoints = None \/ bbox = None
    /\ nTracks < MaxTracks
    /\ nTracks' = nTracks + 1
    /\ prevTrackOutcome' = trackOutcome
    /\ prevTrackRet' = trackRet
    /\ trackOutcome' = "null"
    /\ trackRet' = None
    /\ UNCHANGED <<prevFrame, prevGray, prevPoints, bbox, initOutcome, boxBefore,
                   goodPrev, goodNext, medianDx, medianDy, trackFrame>>
    /\ UNCHANGED nonSparseVars

\* cv.calcOpticalFlowPyrLK rejects an empty point matrix in some builds: the call
\* throws before anything of the tracker is written
TrackThrows ==
    /\ prevGray # None /\ prevPoints # None /\ bbox # None
    /\ Len(prevPoints[1]) = 0
    /\ nTracks < MaxTracks
    /\ nTracks' = nTracks + 1
    /\ prevTrackOutcome' = trackOutcome
    /\ prevTrackRet' = trackRet
    /\ trackOutcome' = "threw"
    /\ trackRet' = None
    /\ UNCHANGED <<prevFrame, prevGray, prevPoints, bbox, initOutcome, boxBefore,
                   goodPrev, goodNext, medianDx, medianDy, trackFrame>>
    /\ UNCHANGED nonSparseVars

\* track(frame) with the flow results lk, one per reference point
Track(frame, lk) ==
    /\ prevGray # None /\ prevPoints # None /\ bbox # None
    /\ nTracks < MaxTracks
    /\ Len(lk) = Len(prevPoints[1])
    /\ LET currGray == imread(frame)
           nextPoints == nextPointsOf(prevPoints[1], lk)
           status == statusOf(lk)
           gPrev == GoodCoords(prevPoints[1], status, 1)
           gNext == GoodCoords(nextPoints, status, 1)
           b == bbox[1]
       IN  /\ nTracks' = nTracks + 1
           /\ prevTrackOutcome' = trackOutcome
           /\ prevTrackRet' = trackRet
           /\ boxBefore' = bbox
           /\ trackFrame' = Some(frame)
           /\ goodPrev' = gPrev
           /\ goodNext' = gNext
           /\ IF TrackingLost(gNext)
              THEN /\ trackOutcome' = "lost"
                   /\ trackRet' = bbox
                   /\ UNCHANGED <<prevFrame, prevGray, prevPoints, bbox, initOutcome,
                                  medianDx, medianDy>>
              ELSE LET mdx == Median(deltaX(gPrev, gNext))
                       mdy == Median(deltaY(gPrev, gNext))
                       nb  == [b EXCEPT !.x = ShiftX(b, currGray.cols, mdx),
                                        !.y = ShiftY(b, currGray.rows, mdy)]
                   IN  /\ medianDx' = mdx
                       /\ medianDy' = mdy
                       /\ bbox' = Some(nb)
                       /\ prevFrame' = Some(imread(frame))
                       /\ prevGray' = Some(currGray)
                       /\ prevPoints' = Some(nextPoints)
                       /\ trackOutcome' = "tracked"
                       /\ trackRet' = Some(nb)
                       /\ UNCHANGED initOutcome

(***************************************************************************)
(* SimpleObjectTracker.cleanup                                             *)
(***************************************************************************)
Cleanup ==
    /\ prevFrame' = None
    /\ prevGray' = None
    /\ prevPoints' = None
    /\ UNCHANGED <<bbox, initOutcome, trackOutcome, trackRet, prevTrackOutcome,
                   prevTrackRet, boxBefore, goodPrev, goodNext, medianDx, medianDy,
                   trackFrame, nTracks>>
    /\ UNCHANGED nonSparseVars

\* no warpMask / bilinearSample call is under observation
WarpIdle == wMask = None /\ wFlow = None /\ wOut = None /\ wThrew = FALSE
SampleIdle == sImg = None /\ sX = 0 /\ sY = 0 /\ sOut = None
\* a dense tracker as constructed (raftTracking.ts:33-35), no call made yet
RaftIdle ==
    /\ raftSession = None
    /\ previousFrame = None
    /\ currentMask = None
    /\ refMask = None
    /\ raftOutcome = "none"
    /\ prevRaftOutcome = "none"
    /\ prev2RaftOutcome = "none"
    /\ nRaftTracks = 0
    /\ raftCall = [steps |-> <<>>, feeds |-> None, flowFrames |-> None, ret |-> None]
\* a progress value num/den
Fraction(num, den) == [num |-> num, den |-> den]
\* the editor as mounted (VideoEditor.tsx:65-66), no run started
RunIdle ==
    /\ isProcessing = FALSE
    /\ progress = Fraction(0, 1)
    /\ runKind = "none"
    /\ runPc = "idle"
    /\ runError = None
    /\ nRuns = 0
    /\ duration = 0
    /\ currentTime = 0
    /\ frames = <<>>
    /\ stepIndex = 0
    /\ stepPhase = "none"
    /\ processedFrames = <<>>
    /\ trackCalls = <<>>
    /\ progressLog = <<>>
    /\ trackerInitialized = FALSE
    /\ cleanupCalls = 0
\* a page in which no tracker was constructed yet
PairIdle == page = None /\ ortEnv = None /\ pairTrackers = None /\ pairLast = None
\* no bounding-box frame loop under observation
BoxModeIdle ==
    /\ boxPc = "idle"
    /\ boxFrameSize = None
    /\ initialBox = None
    /\ boxIndex = 0
    /\ currentBBox = None
    /\ boxTrackCalls = <<>>
    /\ inpaintCalls = <<>>
\* no Farneback flow computation under observation
FarnebackIdle ==
    fbGray = None /\ fbMat = None /\ fbFlow = None /\ fbMask = None /\ fbWarped = None
\* no tracker with native buffers under observation
MatsIdle ==
    /\ matKind = "none"
    /\ mats = <<>>
    /\ matFields = None
    /\ matCall = None
    /\ matFaults = [releasedTwice |-> FALSE, usedAfterRelease |-> FALSE]
    /\ nMatCalls = 0
\* the editor as mounted: no stroke drawn, no input on a process button yet
ButtonsIdle ==
    /\ lineCount = 0
    /\ lastInput = None
    /\ ignoredWhileProcessing = FALSE
    /\ runsOverlapped = FALSE
\* no extractFrames call under observation
ExtractIdle ==
    /\ exPc = "idle"
    /\ exDuration = 0
    /\ exTime = [k |-> 0, drift |-> 0]
    /\ exFrames = <<>>
    /\ exSeeks = 0
\* no combineFramesToVideo call under observation
CombineIdle ==
    /\ cbPc = "idle"
    /\ cbLength = 0
    /\ frameIndex = 0
    /\ cbDrawn = <<>>
    /\ recorder = "none"
    /\ recorderEvents = <<>>
    /\ chunks = <<>>
    /\ cbStops = 0
    /\ cbPromise = "pending"

(***************************************************************************)
(* Specifications of the sparse tracker.  A tracker instance is created    *)
(* and initialized once per processing run (VideoEditor.tsx:268-269);      *)
(* frame nTracks+1 of the video is the next one tracked.                   *)
(***************************************************************************)
SparseInit ==
    /\ prevFrame = None
    /\ prevGray = None
    /\ prevPoints = None
    /\ bbox = None
    /\ initOutcome = "none"
    /\ trackOutcome = "none"
    /\ trackRet = None
    /\ prevTrackOutcome = "none"
    /\ prevTrackRet = None
    /\ boxBefore = None
    /\ goodPrev = <<>>
    /\ goodNext = <<>>
    /\ medianDx = 0
    /\ medianDy = 0
    /\ trackFrame = None
    /\ nTracks = 0
    /\ WarpIdle
    /\ SampleIdle
    /\ RaftIdle
    /\ RunIdle
    /\ PairIdle
    /\ BoxModeIdle
    /\ FarnebackIdle
    /\ MatsIdle
    /\ ButtonsIdle
    /\ ExtractIdle
    /\ CombineIdle

DoInitialize ==
    /\ initOutcome = "none"
    /\ \E size \in FrameSizes, b \in Boxes, k \in 0..MaxPoints :
          Initialize(Frame(nTracks, size), b, DetectedCorners(k, size))
    /\ UNCHANGED nonSparseVars

\* the frame handed to the next track call: the size of the reference frame
NextFrame == Frame(nTracks + 1, <<prevGray[1].cols, prevGray[1].rows>>)

\* flow results of one call in a tracking session, up to the order of the points
SessionLK == <<[status |-> 0, d |-> <<0, 0>>], [status |-> 1, d |-> <<1, 0>>],
               [status |-> 1, d |-> <<-1, -1>>]>>
SessionLKSeqs(n) ==
    {[i \in 1..n |-> SessionLK[c[i]]] :
        c \in {f \in [1..n -> 1..Len(SessionLK)] :
                  \A i \in 1..n : \A j \in 1..n : i <= j => f[i] <= f[j]}}

DoTrack ==
    /\ prevPoints # None
    /\ \E lk \in SessionLKSeqs(Len(prevPoints[1])) : Track(NextFrame, lk)
    /\ UNCHANGED nonSparseVars

SparseNext == DoInitialize \/ DoTrack \/ TrackNull \/ TrackThrows \/ Cleanup

SpecSparse == SparseInit /\ [][SparseNext]_vars

\* one track call with every assignment of flow results to the reference points
DoTrackOnce ==
    /\ prevPoints # None
    /\ nTracks = 0
    /\ \E lk \in [1..Len(prevPoints[1]) -> LKResults] : Track(NextFrame, lk)
    /\ UNCHANGED nonSparseVars

TrackOnceNext == DoInitialize \/ DoTrackOnce

SpecTrackOnce == SparseInit /\ [][TrackOnceNext]_vars

(***************************************************************************)
(* Claims about the sparse tracker.                                        *)
(***************************************************************************)
\* the last track call read its frame and returned a box
TrackReturnedBox == trackOutcome \in {"lost", "tracked"}

\* number of correspondences the last track call found valid
validCount == Len(goodNext) \div 2

\* displacement of the i-th valid correspondence of the last track call
validDx(i) == goodNext[2 * i - 1] - goodPrev[2 * i - 1]
validDy(i) == goodNext[2 * i] - goodPrev[2 * i]

\* C1: after any track call, shifted or lost, the tracker's box lies inside the
\* frame: 0 <= x, 0 <= y, x+width <= frameWidth, y+height <= frameHeight.
C1_BoxInsideFrameAfterTrack ==
    TrackReturnedBox =>
        /\ 0 <= bbox[1].x
        /\ 0 <= bbox[1].y
        /\ bbox[1].x + bbox[1].width <= trackFrame[1].width
        /\ bbox[1].y + bbox[1].height <= trackFrame[1].height

\* C2: a track call that finds fewer than 4 valid correspondences returns the box
\* held before the call; the box is shifted only with 4 or more.
C2_FewerThanFourValidKeepsBox ==
    (TrackReturnedBox /\ validCount < 4) => trackRet = boxBefore

\* C3: the result of a lost-tracking call differs from the result of a successful
\* call, so the caller can tell the two apart.
C3_LostResultDistinguishable ==
    (/\ trackOutcome \in {"lost", "tracked"}
     /\ prevTrackOutcome \in {"lost", "tracked"}
     /\ trackOutcome # prevTrackOutcome)
        => trackRet # prevTrackRet

\* C4: initialize never completes normally with an empty reference point set: with
\* no detected point inside the box it signals InsufficientFeatures.
C4_EmptyPointSetIsSignalled ==
    (/\ initOutcome # "none"
     /\ trackOutcome # "tracked"
     /\ prevPoints # None
     /\ Len(prevPoints[1]) = 0)
        => initOutcome = "InsufficientFeatures"

\* C5: in a successful track call, when a strict majority of the valid
\* correspondences share an x-displacement, the shift in x before clamping is that
\* displacement, and likewise in y, each axis on its own; so a majority sharing
\* (dx,dy) gives the shift (dx,dy) whatever the outliers are.
C5_MajorityDisplacementIsShift ==
    trackOutcome = "tracked" =>
        /\ \A i \in 1..validCount :
              2 * Cardinality({j \in 1..validCount : validDx(j) = validDx(i)}) > validCount
                 => medianDx = validDx(i)
        /\ \A i \in 1..validCount :
              2 * Cardinality({j \in 1..validCount : validDy(j) = validDy(i)}) > validCount
                 => medianDy = validDy(i)

\* a successful call where 3 of 4 correspondences moved by (1,0), the outlier by
\* (-1,-1), and the shift is (1,0)
C5_Witness ==
    /\ trackOutcome = "tracked"
    /\ validCount = 4
    /\ Cardinality({j \in 1..validCount : validDx(j) = 1 /\ validDy(j) = 0}) = 3
    /\ \E j \in 1..validCount : validDx(j) = -1 /\ validDy(j) = -1
    /\ medianDx = 1
    /\ medianDy = 0

(***************************************************************************)
(* Image buffers and warpMask / bilinearSample (raftTracking.ts; the two   *)
(* trackers carry the same code, lines 425-518 and 826-918).               *)
(* An ImageData is [width, height, data], data holding width*height*4      *)
(* bytes R,G,B,A.  Coordinates and flow values are fixed-point numbers in  *)
(* units of 1/SubPixel pixel; a sampled value is a fraction over           *)
(* SubPixel*SubPixel.                                                      *)
(***************************************************************************)
\* coordinate units per pixel
SubPixel == 2
\* largest number of pixels of a mask, and of cells of a flow field
MaxMaskCells == 4
MaxFlowCells == 4

\* what reading outside an array gives (undefined), and what arithmetic on it
\* gives: a value no coordinate, displacement or pixel value takes
NaN == 0 - 1000000

\* array[i], i the code's 0-based index
At(array, i) == IF i >= 0 /\ i < Len(array) THEN array[i + 1] ELSE NaN

ImageData(w, h, data) == [width |-> w, height |-> h, data |-> data]

\* canvas drawImage(canvas, 0, 0, targetWidth, targetHeight) + getImageData: the
\* source pixel under the centre of each target pixel
resizeImageData(imageData, targetWidth, targetHeight) ==
    ImageData(targetWidth, targetHeight,
        [i \in 1..(targetWidth * targetHeight * 4) |->
            LET px == (i - 1) \div 4
                ch == (i - 1) % 4
                x  == px % targetWidth
                y  == px \div targetWidth
                sx == ((2 * x + 1) * imageData.width) \div (2 * targetWidth)
                sy == ((2 * y + 1) * imageData.height) \div (2 * targetHeight)
            IN  imageData.data[(sy * imageData.width + sx) * 4 + ch + 1]])

NoClampCoord(c, n) == c
\* Math.max(0, Math.min(n - 1, c)), c in coordinate units
ClampCoord(c, n) == IF c = NaN THEN NaN ELSE Max(0, Min((n - 1) * SubPixel, c))

LerpSwapped(a, b, f) ==
    IF a = NaN \/ b = NaN THEN NaN ELSE a * f + b * (SubPixel - f)
\* a * (1 - f) + b * f, times SubPixel
Lerp(a, b, f) ==
    IF a = NaN \/ b = NaN THEN NaN ELSE a * (SubPixel - f) + b * f

\* the locals of bilinearSample(imageData, x, y) and its return value (times
\* SubPixel*SubPixel), NaN when a read fell outside the data
sampleLocals(imageData, x, y) ==
    LET width == imageData.width
        height == imageData.height
        cx == ClampCoord(x, width)
        cy == ClampCoord(y, height)
        x0 == cx \div SubPixel
        x1 == Min(x0 + 1, width - 1)
        y0 == cy \div SubPixel
        y1 == Min(y0 + 1, height - 1)
        fx == cx - x0 * SubPixel
        fy == cy - y0 * SubPixel
        i00 == (y0 * width + x0) * 4
        i10 == (y0 * width + x1) * 4
        i01 == (y1 * width + x0) * 4
        i11 == (y1 * width + x1) * 4
        v0 == Lerp(At(imageData.data, i00), At(imageData.data, i10), fx)
        v1 == Lerp(At(imageData.data, i01), At(imageData.data, i11), fx)
    IN  IF cx = NaN \/ cy = NaN
        THEN \* NaN coordinates: every local is NaN, data[NaN] is undefined
             [x0 |-> NaN, x1 |-> NaN, y0 |-> NaN, y1 |-> NaN, fx |-> NaN, fy |-> NaN,
              reads |-> {}, value |-> NaN]
        ELSE [x0 |-> x0, x1 |-> x1, y0 |-> y0, y1 |-> y1, fx |-> fx, fy |-> fy,
              reads |-> {i00, i10, i01, i11}, value |-> Lerp(v0, v1, fy)]

bilinearSample(imageData, x, y) == sampleLocals(imageData, x, y).value

\* storing a number into a Uint8ClampedArray: NaN becomes 0, otherwise clamp to
\* 0..255 and round to nearest, ties to even; v is a fraction over den
ToUint8Clamped(v, den) ==
    IF v = NaN \/ v <= 0 THEN 0
    ELSE IF v >= 255 * den THEN 255
    ELSE LET q == v \div den
             r == v % den
         IN  IF 2 * r < den THEN q
             ELSE IF 2 * r > den THEN q + 1
             ELSE IF q % 2 = 0 THEN q ELSE q + 1

SrcCoordAdded(c, d) == IF d = NaN THEN NaN ELSE c * SubPixel + d
\* x - dx: the source coordinate of destination cell c under displacement d
SrcCoord(c, d) == IF d = NaN THEN NaN ELSE c * SubPixel - d

\* the loop of warpMask over the flow grid
warpedData(processedMask, flow, flowWidth, flowHeight) ==
    [i \in 1..(flowWidth * flowHeight * 4) |->
        LET flowIdx == (i - 1) \div 4
            ch == (i - 1) % 4
            x == flowIdx % flowWidth
            y == flowIdx \div flowWidth
            dx == At(flow, flowIdx)
            dy == At(flow, flowWidth * flowHeight + flowIdx)
            maskValue == bilinearSample(processedMask, SrcCoord(x, dx), SrcCoord(y, dy))
        IN  IF ch = 3 THEN 255 ELSE ToUint8Clamped(maskValue, SubPixel * SubPixel)]

KeepFlowSize(warpedMask, origWidth, origHeight) == warpedMask
\* the resize back to the mask's own size, when it differs from the flow's
ResizeBack(warpedMask, origWidth, origHeight) ==
    IF origWidth # warpedMask.width \/ origHeight # warpedMask.height
    THEN resizeImageData(warpedMask, origWidth, origHeight)
    ELSE warpedMask

warpMask(mask, flow, flowWidth, flowHeight) ==
    LET processedMask ==
            IF mask.width # flowWidth \/ mask.height # flowHeight
            THEN resizeImageData(mask, flowWidth, flowHeight)
            ELSE mask
        warpedMask == ImageData(flowWidth, flowHeight,
                          warpedData(processedMask, flow, flowWidth, flowHeight))
    IN  ResizeBack(warpedMask, mask.width, mask.height)

(***************************************************************************)
(* Inputs of the warp: masks and flow fields.                              *)
(***************************************************************************)
Dims(maxCells) == {d \in (1..maxCells) \X (1..maxCells) : d[1] * d[2] <= maxCells}

\* RGBA of a mask pixel
White == <<255, 255, 255, 255>>
OpaqueBlack == <<0, 0, 0, 255>>
\* the background of a canvas that was only drawn on (VideoEditor.tsx:156-163)
Transparent == <<0, 0, 0, 0>>
Backgrounds == {OpaqueBlack, Transparent}

\* a mask: white strokes (the pixels in strokes) over one background
MaskOf(w, h, background, strokes) ==
    ImageData(w, h, [i \in 1..(w * h * 4) |->
        IF ((i - 1) \div 4) \in strokes THEN White[((i - 1) % 4) + 1]
        ELSE background[((i - 1) % 4) + 1]])
Masks(maxCells) ==
    {MaskOf(d[1], d[2], bg, st) :
        d \in Dims(maxCells), bg \in Backgrounds, st \in SUBSET (0..(maxCells - 1))}

\* displacement components, in coordinate units
FlowComponents == {0 - SubPixel, 0, 1, SubPixel}
\* a field in the layout [all dx, all dy] from a displacement per cell
FlowOf(w, h, cell) ==
    [flow |-> [i \in 1..(2 * w * h) |->
                  IF i <= w * h THEN cell[i][1] ELSE cell[i - w * h][2]],
     flowWidth |-> w, flowHeight |-> h]
UniformFlows(maxCells) ==
    {FlowOf(d[1], d[2], [i \in 1..(d[1] * d[2]) |-> <<dx, dy>>]) :
        d \in Dims(maxCells), dx \in FlowComponents, dy \in FlowComponents}
\* fields whose cells move by one of two displacements
MixedFlows(maxCells) ==
    UNION {{FlowOf(d[1], d[2], cell) :
               cell \in [1..(d[1] * d[2]) -> {<<0, 0>>, <<SubPixel, 1>>}]} :
           d \in Dims(maxCells)}
Flows(maxCells) == UniformFlows(maxCells) \cup MixedFlows(maxCells)

(***************************************************************************)
(* One warpMask call on any mask and flow field.                           *)
(***************************************************************************)
\* everything but the warp call
nonWarpVars == <<sparseVars, sampleVars, raftVars, runVars, pairVars, boxVars, farnebackVars, matVars, buttonVars, extractVars, combineVars>>

WarpInit ==
    /\ SparseInit
    /\ wOut = None

WarpCall ==
    /\ wOut = None
    /\ wMask = None
    /\ \E mask \in Masks(MaxMaskCells), f \in Flows(MaxFlowCells) :
          /\ wMask' = Some(mask)
          /\ wFlow' = Some(f)
          /\ wOut' = Some(warpMask(mask, f.flow, f.flowWidth, f.flowHeight))
    /\ wThrew' = FALSE
    /\ UNCHANGED nonWarpVars

SpecWarp == WarpInit /\ [][WarpCall]_vars

(***************************************************************************)
(* Claims about warpMask.                                                  *)
(***************************************************************************)
\* every displacement of the field is zero
ZeroFlow(f) == \A i \in 1..Len(f.flow) : f.flow[i] = 0
\* the field has the mask's resolution
SameResolution(m, f) == m.width = f.flowWidth /\ m.height = f.flowHeight
\* R = G = B and A = 255 in every pixel
Canonical(m) ==
    \A px \in 0..(m.width * m.height - 1) :
        /\ m.data[px * 4 + 2] = m.data[px * 4 + 1]
        /\ m.data[px * 4 + 3] = m.data[px * 4 + 1]
        /\ m.data[px * 4 + 4] = 255
\* the field moves every cell by the same whole number of pixels
UniformInteger(f) ==
    LET n == f.flowWidth * f.flowHeight
    IN  /\ \A i \in 1..n : f.flow[i] = f.flow[1] /\ f.flow[n + i] = f.flow[n + 1]
        /\ f.flow[1] % SubPixel = 0
        /\ f.flow[n + 1] % SubPixel = 0
\* red value of pixel (x, y)
Red(m, x, y) == m.data[(y * m.width + x) * 4 + 1]

\* C7 as stated: for any mask and any all-zero flow field, warpMask returns the
\* input mask, equal in all four channels of every pixel.
C7_ZeroFlowReturnsInput ==
    (wOut # None /\ ZeroFlow(wFlow[1])) => wOut[1] = wMask[1]

\* C7 amended: for a mask in canonical form (R = G = B, A = 255 in every pixel) and
\* an all-zero flow field of the mask's own resolution, warpMask returns the input
\* mask, equal in all four channels of every pixel.
C7_ZeroFlowReturnsCanonicalInput ==
    (/\ wOut # None
     /\ ZeroFlow(wFlow[1])
     /\ SameResolution(wMask[1], wFlow[1])
     /\ Canonical(wMask[1]))
        => wOut[1] = wMask[1]

\* a canonical mask with a white and a black pixel came back unchanged from a zero
\* field of its resolution
C7_Witness ==
    /\ wOut # None
    /\ ZeroFlow(wFlow[1])
    /\ SameResolution(wMask[1], wFlow[1])
    /\ Canonical(wMask[1])
    /\ \E i \in 1..Len(wMask[1].data) : wMask[1].data[i] = 0
    /\ \E i \in 1..Len(wMask[1].data) : wMask[1].data[i] = 255 /\ i % 4 # 0
    /\ wOut[1] = wMask[1]

\* C9: with a flow field of the mask's resolution and a uniform whole-pixel
\* displacement (dx,dy), every destination cell (x,y) holds the mask's value at
\* (x-dx, y-dy) clamped to the edge, in R, G and B, with A = 255.
C9_UniformShiftMovesMask ==
    (/\ wOut # None
     /\ SameResolution(wMask[1], wFlow[1])
     /\ UniformInteger(wFlow[1]))
        => LET m == wMask[1]
               o == wOut[1]
               dx == wFlow[1].flow[1] \div SubPixel
               dy == wFlow[1].flow[m.width * m.height + 1] \div SubPixel
           IN  /\ o.width = m.width
               /\ o.height = m.height
               /\ \A x \in 0..(m.width - 1) : \A y \in 0..(m.height - 1) :
                     LET v == Red(m, Max(0, Min(m.width - 1, x - dx)),
                                     Max(0, Min(m.height - 1, y - dy)))
                         at == (y * m.width + x) * 4
                     IN  /\ o.data[at + 1] = v
                         /\ o.data[at + 2] = v
                         /\ o.data[at + 3] = v
                         /\ o.data[at + 4] = 255

\* a white pixel away from the border, moved one pixel to the right by dx = 1,
\* dy = 0; every other pixel of the result is background
C9_Witness ==
    /\ wOut # None
    /\ SameResolution(wMask[1], wFlow[1])
    /\ UniformInteger(wFlow[1])
    /\ wFlow[1].flow[1] = SubPixel
    /\ wFlow[1].flow[wMask[1].width * wMask[1].height + 1] = 0
    /\ wMask[1].width >= 4
    /\ \A x \in 0..(wMask[1].width - 1) : Red(wMask[1], x, 0) = (IF x = 1 THEN 255 ELSE 0)
    /\ \A x \in 0..(wMask[1].width - 1) : Red(wOut[1], x, 0) = (IF x = 2 THEN 255 ELSE 0)

(***************************************************************************)
(* One bilinearSample call on any buffer and any coordinates, in and out   *)
(* of range.                                                               *)
(***************************************************************************)
\* everything but the sample call
nonSampleVars == <<sparseVars, warpVars, raftVars, runVars, pairVars, boxVars, farnebackVars, matVars, buttonVars, extractVars, combineVars>>

\* coordinates from two pixels before the buffer to two pixels past it
SampleCoords(n) == (0 - 2 * SubPixel)..((n + 1) * SubPixel)

SampleInit ==
    /\ SparseInit
    /\ sOut = None

SampleCall ==
    /\ sOut = None
    /\ sImg = None
    /\ \E img \in Masks(MaxMaskCells) :
          \E x \in SampleCoords(img.width), y \in SampleCoords(img.height) :
              /\ sImg' = Some(img)
              /\ sX' = x
              /\ sY' = y
              /\ sOut' = Some(sampleLocals(img, x, y))
    /\ UNCHANGED nonSampleVars

SpecSample == SampleInit /\ [][SampleCall]_vars

(***************************************************************************)
(* Claims about bilinearSample.                                            *)
(***************************************************************************)
\* the four pixels read lie inside the buffer, and so do the indices read
ReadsInBounds ==
    LET img == sImg[1]
        l == sOut[1]
    IN  /\ 0 <= l.x0 /\ l.x0 <= img.width - 1
        /\ 0 <= l.x1 /\ l.x1 <= img.width - 1
        /\ 0 <= l.y0 /\ l.y0 <= img.height - 1
        /\ 0 <= l.y1 /\ l.y1 <= img.height - 1
        /\ \A i \in l.reads : 0 <= i /\ i < Len(img.data)

\* (sX, sY) lies outside [0,width) x [0,height)
SampleOutside ==
    \/ sX < 0 \/ sX >= sImg[1].width * SubPixel
    \/ sY < 0 \/ sY >= sImg[1].height * SubPixel

\* squared distance from (sX, sY) to the centre of pixel (px, py)
Dist2(px, py) ==
    (sX - px * SubPixel) * (sX - px * SubPixel) + (sY - py * SubPixel) * (sY - py * SubPixel)
\* the pixels of the buffer nearest to (sX, sY)
NearestPixels ==
    LET all == (0..(sImg[1].width - 1)) \X (0..(sImg[1].height - 1))
    IN  {p \in all : \A q \in all : Dist2(p[1], p[2]) <= Dist2(q[1], q[2])}

\* C8 as stated: bilinearSample reads only pixels inside the buffer, and for
\* (x,y) outside the buffer it returns the value of the nearest edge pixel.
C8_OutsideReturnsNearestPixel ==
    sOut # None =>
        /\ ReadsInBounds
        /\ SampleOutside =>
              \E p \in NearestPixels :
                  sOut[1].value = SubPixel * SubPixel * Red(sImg[1], p[1], p[2])

\* C8 amended: bilinearSample reads only pixels inside the buffer, and for (x,y)
\* out of range it returns the bilinear sample at the nearest point of
\* [0,width-1] x [0,height-1]: the value of the nearest edge pixel when that point
\* is a pixel centre, otherwise the linear blend of the two edge pixels next to it.
C8_ClampToEdge ==
    sOut # None =>
        LET img == sImg[1]
            l == sOut[1]
            cx == Max(0, Min((img.width - 1) * SubPixel, sX))
            cy == Max(0, Min((img.height - 1) * SubPixel, sY))
            px == cx \div SubPixel
            py == cy \div SubPixel
            xOut == sX < 0 \/ sX > (img.width - 1) * SubPixel
            yOut == sY < 0 \/ sY > (img.height - 1) * SubPixel
        IN  /\ ReadsInBounds
            /\ (cx % SubPixel = 0 /\ cy % SubPixel = 0)
                  => l.value = SubPixel * SubPixel * Red(img, px, py)
            /\ (xOut /\ cy % SubPixel # 0)
                  => l.value = SubPixel * (Red(img, px, py) * (SubPixel - (cy % SubPixel))
                                           + Red(img, px, py + 1) * (cy % SubPixel))
            /\ (yOut /\ cx % SubPixel # 0)
                  => l.value = SubPixel * (Red(img, px, py) * (SubPixel - (cx % SubPixel))
                                           + Red(img, px + 1, py) * (cx % SubPixel))

\* a sample left of and below a buffer with a white bottom-left pixel and a black
\* pixel elsewhere returned the bottom-left pixel's value
C8_Witness ==
    /\ sOut # None
    /\ sX < 0
    /\ sY > (sImg[1].height - 1) * SubPixel
    /\ sImg[1].height >= 2
    /\ Red(sImg[1], 0, sImg[1].height - 1) = 255
    /\ Red(sImg[1], 0, 0) = 0
    /\ sOut[1].value = SubPixel * SubPixel * 255

(***************************************************************************)
(* RAFTMaskTracker (raftTracking.ts:32-651).  FarnebackMaskTracker.track   *)
(* has the same shape: compute the flow, warp the stored mask, then store. *)
(***************************************************************************)
\* track calls made on one dense tracker
MaxRaftTracks == 2
\* sizes of the reference mask and of the flow fields the model returns
RaftDims == {<<1, 1>>, <<2, 1>>, <<1, 2>>}

\* the fixed input size of the model
targetWidth == 480
targetHeight == 360

\* frame number id of the video; a frame that failed to load has size 0 x 0
RaftFrameDims == {<<0, 0>>, <<2, 1>>}
RaftFrame(id, d) == [id |-> id, width |-> d[1], height |-> d[2]]

\* canvas getImageData rejects a zero width or height
imageToImageDataThrows(img) == img.width = 0 \/ img.height = 0
imageToImageData(img) == img

\* the tensor of a frame: resized to the fixed size, every value a byte over 255
imageDataToTensor(imageData) ==
    [finite |-> TRUE, length |-> 3 * targetHeight * targetWidth]
hasInvalidData(tensor) == ~tensor.finite \/ tensor.length = 0

\* what session.run does with two valid tensors: raises, answers without the flow
\* output, or answers with a flow field of its own resolution
RaftDisplacements == {<<0, 0>>, <<SubPixel, 0>>, <<1, 1>>}
RaftFlows ==
    {FlowOf(d[1], d[2], [i \in 1..(d[1] * d[2]) |-> c]) :
        d \in RaftDims, c \in RaftDisplacements}
InferenceResults ==
    {[kind |-> "raised", out |-> None], [kind |-> "missing", out |-> None]}
    \cup {[kind |-> "flow", out |-> Some(f)] : f \in RaftFlows}

\* computeOpticalFlow: "ok" or the place where it throws
computeOpticalFlow(frame1, frame2, r) ==
    IF hasInvalidData(imageDataToTensor(frame1)) \/ hasInvalidData(imageDataToTensor(frame2))
    THEN "invalidTensor"
    ELSE IF r.kind = "raised" THEN "inferenceRaised"
    ELSE IF r.kind = "missing" THEN "flowMissing"
    ELSE "ok"

\* how a track call ends
trackOutcomeOf(nextFrame, r) ==
    IF raftSession = None \/ previousFrame = None \/ currentMask = None THEN "notReady"
    ELSE IF imageToImageDataThrows(nextFrame) THEN "frameUnreadable"
    ELSE IF computeOpticalFlow(previousFrame[1], imageToImageData(nextFrame), r) # "ok"
    THEN computeOpticalFlow(previousFrame[1], imageToImageData(nextFrame), r)
    ELSE "tracked"
RaftTrackFailures ==
    {"notReady", "frameUnreadable", "invalidTensor", "inferenceRaised", "flowMissing"}

\* a field written before the calls that can throw
StoredEarly(outcome, stored, computed) == computed
\* a field of the tracker after track: written only after the flow was computed and
\* the mask warped
StoredAfterTrack(outcome, stored, computed) ==
    IF outcome = "tracked" THEN computed ELSE stored

\* what initialize meets: no ONNX runtime, no model bytes, session creation raising
\* on the last provider, session creation answering nothing, or a session
InitializeEnvs ==
    {"ortMissing", "modelUnavailable", "createRaised", "createdNothing", "created"}
\* the local session at the end of the provider loop (raftTracking.ts:126-210)
sessionCreated(env) == IF env = "created" THEN Some("session") ELSE None
\* initialize returning normally whatever the loop left
ReturnsQuietly(env) == "initialized"
\* how initialize ends: every failure is thrown to the caller
\* (raftTracking.ts:46-48, 205-209, 213-215, 230)
initializeOutcome(env) ==
    IF sessionCreated(env) = None THEN "initializeThrew" ELSE "initialized"

RaftInitialize ==
    /\ raftSession = None
    /\ \E env \in InitializeEnvs :
          /\ raftSession' = IF initializeOutcome(env) = "initialized"
                            THEN sessionCreated(env) ELSE raftSession
          /\ raftOutcome' = initializeOutcome(env)
    /\ prevRaftOutcome' = raftOutcome
    /\ prev2RaftOutcome' = prevRaftOutcome
    /\ UNCHANGED <<previousFrame, currentMask, refMask, nRaftTracks, raftCall>>
    /\ UNCHANGED <<sparseVars, warpVars, sampleVars, runVars, pairVars, boxVars, farnebackVars, matVars, buttonVars, extractVars, combineVars>>

\* the masks setReference is given: any drawn mask the first time, the same drawn
\* mask when the tracker is referenced again after cleanup
DrawnMasks ==
    {MaskOf(d[1], d[2], bg, st) :
        d \in RaftDims, bg \in Backgrounds, st \in SUBSET {0, 1}}
ReferenceMasks == IF refMask = None THEN DrawnMasks ELSE {refMask[1]}

\* setReference with frame 0 of the video and the drawn mask, on a tracker that
\* holds no mask (new, or after cleanup)
RaftSetReference ==
    /\ currentMask = None
    /\ \E d \in RaftFrameDims, mask \in ReferenceMasks :
          IF imageToImageDataThrows(RaftFrame(0, d))
          THEN /\ raftOutcome' = "setReferenceThrew"
               /\ UNCHANGED <<previousFrame, currentMask, refMask>>
          ELSE /\ previousFrame' = Some(imageToImageData(RaftFrame(0, d)))
               /\ currentMask' = Some(mask)
               /\ refMask' = Some(mask)
               /\ raftOutcome' = "referenceSet"
    /\ prevRaftOutcome' = raftOutcome
    /\ prev2RaftOutcome' = prevRaftOutcome
    /\ UNCHANGED <<raftSession, nRaftTracks, raftCall>>
    /\ UNCHANGED <<sparseVars, warpVars, sampleVars, runVars, pairVars, boxVars, farnebackVars, matVars, buttonVars, extractVars, combineVars>>

\* the mask track hands to warpMask: the stored one
ReferenceMaskAlways(stored, reference) == reference
maskToWarp(stored, reference) == stored

\* computeOpticalFlow up to session.run without the validation
StepsToRunUnchecked == <<"imageDataToTensor", "imageDataToTensor", "run">>
\* computeOpticalFlow up to session.run (raftTracking.ts:307-367)
StepsToRun == <<"imageDataToTensor", "imageDataToTensor", "validate", "run">>
\* a track call that reads the frame before it tests the tracker's fields
StepsReadFrameFirst(outcome) == <<"imageToImageData">>
\* the steps a track call goes through, by the way it ends
trackSteps(outcome) ==
    IF outcome = "notReady" THEN <<>>
    ELSE IF outcome = "frameUnreadable" THEN <<"imageToImageData">>
    ELSE IF outcome = "invalidTensor"
    THEN <<"imageToImageData", "imageDataToTensor", "imageDataToTensor", "validate">>
    ELSE IF outcome \in {"inferenceRaised", "flowMissing"}
    THEN <<"imageToImageData">> \o StepsToRun
    ELSE <<"imageToImageData">> \o StepsToRun \o <<"warpMask", "store", "imageDataToCanvas">>

\* canvas putImageData of a buffer: the same pixels
imageDataToCanvas(imageData) == imageData

RaftTrack ==
    /\ nRaftTracks < MaxRaftTracks
    /\ \E d \in RaftFrameDims, r \in InferenceResults :
          LET nextFrame == RaftFrame(nRaftTracks + 1, d)
              outcome == trackOutcomeOf(nextFrame, r)
              nextFrameData == imageToImageData(nextFrame)
              ran == outcome \in {"inferenceRaised", "flowMissing", "tracked"}
              f == r.out[1]
              mask == maskToWarp(currentMask, refMask)[1]
              warpedMask == warpMask(mask, f.flow, f.flowWidth, f.flowHeight)
          IN  /\ raftOutcome' = outcome
              /\ previousFrame' = StoredAfterTrack(outcome, previousFrame,
                                                   Some(nextFrameData))
              /\ currentMask' = IF outcome = "tracked"
                                THEN StoredAfterTrack(outcome, currentMask, Some(warpedMask))
                                ELSE currentMask
              /\ IF outcome = "tracked"
                 THEN /\ wMask' = Some(mask)
                      /\ wFlow' = Some(f)
                      /\ wOut' = Some(warpedMask)
                      /\ wThrew' = FALSE
                 ELSE UNCHANGED warpVars
              /\ raftCall' =
                    [steps |-> trackSteps(outcome),
                     feeds |-> IF ran THEN Some(<<imageDataToTensor(previousFrame[1]),
                                                  imageDataToTensor(nextFrameData)>>)
                               ELSE None,
                     flowFrames |-> IF ran THEN Some(<<previousFrame[1], nextFrameData>>)
                                    ELSE None,
                     ret |-> IF outcome = "tracked" THEN Some(imageDataToCanvas(warpedMask))
                             ELSE None]
    /\ nRaftTracks' = nRaftTracks + 1
    /\ prevRaftOutcome' = raftOutcome
    /\ prev2RaftOutcome' = prevRaftOutcome
    /\ UNCHANGED <<raftSession, refMask>>
    /\ UNCHANGED <<sparseVars, sampleVars, runVars, pairVars, boxVars, farnebackVars, matVars, buttonVars, extractVars, combineVars>>

\* a cleanup that also drops the session
ReleasedSession(session) == None
\* the session after cleanup: cleanup does not touch it
sessionAfterCleanup(session) == session

RaftCleanup ==
    /\ previousFrame' = None
    /\ currentMask' = None
    /\ raftSession' = sessionAfterCleanup(raftSession)
    /\ raftOutcome' = "cleanedUp"
    /\ prevRaftOutcome' = raftOutcome
    /\ prev2RaftOutcome' = prevRaftOutcome
    /\ UNCHANGED <<refMask, nRaftTracks, raftCall>>
    /\ UNCHANGED <<sparseVars, warpVars, sampleVars, runVars, pairVars, boxVars, farnebackVars, matVars, buttonVars, extractVars, combineVars>>

RaftInit ==
    /\ SparseInit
    /\ raftSession = None

RaftNext == RaftInitialize \/ RaftSetReference \/ RaftTrack \/ RaftCleanup

SpecRaft == RaftInit /\ [][RaftNext]_vars

(***************************************************************************)
(* Claims about the dense tracker.                                         *)
(***************************************************************************)
SameSize(a, b) == a.width = b.width /\ a.height = b.height

\* C6: warpMask returns a mask of the input mask's width and height, also when the
\* flow field has another resolution; so the mask a dense tracker stores keeps the
\* reference mask's dimensions after any number of track calls.
C6_WarpKeepsMaskSize ==
    /\ wOut # None =>
          /\ SameSize(wOut[1], wMask[1])
          /\ Len(wOut[1].data) = 4 * wMask[1].width * wMask[1].height
    /\ currentMask # None =>
          /\ refMask # None
          /\ SameSize(currentMask[1], refMask[1])

\* two track calls in a row succeeded, the last with a flow field of another
\* resolution than the mask
C6_Witness ==
    /\ nRaftTracks = MaxRaftTracks
    /\ raftOutcome = "tracked"
    /\ prevRaftOutcome = "tracked"
    /\ currentMask # None
    /\ wOut = currentMask
    /\ \/ wFlow[1].flowWidth # wMask[1].width
       \/ wFlow[1].flowHeight # wMask[1].height

\* C10: a track call that fails (not ready, unreadable frame, invalid tensor,
\* inference raised, flow output missing) leaves the stored previous frame, the
\* stored mask and the session as they were before the call.
C10_FailedTrackKeepsState ==
    [][(nRaftTracks' = nRaftTracks + 1 /\ raftOutcome' \in RaftTrackFailures)
          => /\ raftSession' = raftSession
             /\ previousFrame' = previousFrame
             /\ currentMask' = currentMask]_vars

\* a track call succeeded right after one whose inference raised or whose flow
\* output was missing
C10_Witness ==
    /\ prevRaftOutcome \in {"inferenceRaised", "flowMissing"}
    /\ raftOutcome = "tracked"
    /\ raftSession # None
    /\ previousFrame # None
    /\ previousFrame[1].id = nRaftTracks
    /\ currentMask # None

\* position of the first occurrence of step in steps, 0 when absent
StepIndex(steps, step) ==
    IF \E i \in 1..Len(steps) : steps[i] = step
    THEN CHOOSE i \in 1..Len(steps) :
            steps[i] = step /\ \A j \in 1..(i - 1) : steps[j] # step
    ELSE 0

C12_StoredStateFollowsTrack ==
    [][/\ raftOutcome' = "referenceSet" =>
             /\ currentMask' = refMask'
             /\ previousFrame'[1].id = 0
       /\ (nRaftTracks' = nRaftTracks + 1 /\ raftOutcome' = "tracked") =>
             /\ previousFrame'[1].id = nRaftTracks'
             /\ raftCall'.flowFrames = Some(<<previousFrame[1], previousFrame'[1]>>)
             /\ wMask' = currentMask
             /\ raftCall'.ret = Some(warpMask(currentMask[1], wFlow'[1].flow,
                                              wFlow'[1].flowWidth, wFlow'[1].flowHeight))
             /\ currentMask' = raftCall'.ret]_vars

\* the second of two successful track calls warped the mask the first one returned,
\* which differs from the reference mask, with the flow from frame 1 to frame 2
C12_Witness ==
    /\ nRaftTracks = 2
    /\ raftOutcome = "tracked"
    /\ prevRaftOutcome = "tracked"
    /\ wMask # refMask
    /\ raftCall.flowFrames # None
    /\ raftCall.flowFrames[1][1].id = 1
    /\ raftCall.flowFrames[1][2].id = 2
    /\ previousFrame = Some(raftCall.flowFrames[1][2])
    /\ currentMask = raftCall.ret

(***************************************************************************)
(* More claims about the sparse tracker.                                   *)
(***************************************************************************)
\* C13: after a successful track call the reference point set is exactly the new
\* positions of the points that call flagged valid, and the reference frame is the
\* frame passed to the call.
C13_ReferenceSetIsValidPoints ==
    (trackOutcome = "tracked" /\ prevPoints # None) =>
        /\ Len(prevPoints[1]) = validCount
        /\ \A i \in 1..Min(validCount, Len(prevPoints[1])) :
              prevPoints[1][i] = <<goodNext[2 * i - 1], goodNext[2 * i]>>
        /\ prevFrame = Some(imread(trackFrame[1]))

\* the last call on the dense tracker was a track call
LastCallWasTrack == raftOutcome \in RaftTrackFailures \cup {"tracked"}

C15_CleanupKeepsSession ==
    [][/\ raftOutcome' = "cleanedUp" =>
             /\ previousFrame' = None
             /\ currentMask' = None
             /\ raftSession' = raftSession
       /\ (nRaftTracks' = nRaftTracks + 1 /\ currentMask = None) =>
             /\ raftOutcome' = "notReady"
             /\ raftCall'.ret = None
       /\ (/\ nRaftTracks' = nRaftTracks + 1
           /\ raftSession # None /\ previousFrame # None /\ currentMask # None) =>
             raftOutcome' # "notReady"]_vars

\* cleanup, then setReference, then a track call that succeeded on the session
\* initialize stored before the cleanup
C15_Witness ==
    /\ nRaftTracks = 2
    /\ prev2RaftOutcome = "cleanedUp"
    /\ prevRaftOutcome = "referenceSet"
    /\ raftOutcome = "tracked"
    /\ raftSession # None
    /\ raftCall.flowFrames[1][1].id = 0
    /\ currentMask = raftCall.ret

(***************************************************************************)
(* The processing run: processVideoWithOpenCV / processVideoWithFarneback  *)
(* (VideoEditor.tsx:225-440) with extractFrames, processFrames and         *)
(* combineFramesToVideo (part_000).  Each action is one stretch of the run *)
(* between two awaits or events.  Time is in ticks, TicksPerFrame ticks to *)
(* the frame interval 1/fps.                                               *)
(***************************************************************************)
\* ticks per frame interval
TicksPerFrame == 2
\* longest video, in ticks
MaxDuration == 5
\* processing runs started in one behaviour
MaxRuns == 1

\* everything but the processing run
nonRunVars == <<sparseVars, warpVars, sampleVars, raftVars, pairVars, boxVars, farnebackVars, matVars, buttonVars, extractVars, combineVars>>

\* progress reported after the time was advanced
ProgressAfterAdvance(time, length) == Fraction(50 * (time + TicksPerFrame), length)
\* (currentTime / duration) * 50 (part_000:109)
extractProgress(time, length) == Fraction(50 * time, length)
\* 50 + ((i + 1) / frames.length) * 50 (part_000:153)
processProgress(i, n) == Fraction(50 * n + 50 * (i + 1), n)

\* an index that skips a frame
SkipIndex(i) == i + 2
\* i++ of the loop of processFrames (part_000:146)
nextIndex(i) == i + 1

\* an error that ends the run where it is thrown, no finally block
RunThrowsUncaught(error) ==
    /\ runError' = Some(error)
    /\ runPc' = "ended"
\* the run leaves the try block with an error: the catch block is next
RunThrows(error) ==
    /\ runError' = Some(error)
    /\ runPc' = "finally"

\* processVideoWith...: the click on a process button up to the first await
RunStart ==
    /\ runPc \in {"idle", "ended"}
    /\ ~isProcessing
    /\ nRuns < MaxRuns
    /\ \E kind \in {"opencv", "farneback"}, length \in 1..MaxDuration :
          /\ runKind' = kind
          /\ duration' = length
    /\ nRuns' = nRuns + 1
    /\ isProcessing' = TRUE
    /\ progress' = Fraction(0, 1)
    /\ runPc' = "mask"
    /\ runError' = None
    /\ currentTime' = 0
    /\ frames' = <<>>
    /\ stepIndex' = 0
    /\ stepPhase' = "none"
    /\ processedFrames' = <<>>
    /\ trackCalls' = <<>>
    /\ progressLog' = <<>>
    /\ trackerInitialized' = FALSE
    /\ cleanupCalls' = 0
    /\ UNCHANGED nonRunVars

\* refreshCanvasMask, in bounding-box mode getBoundingBoxFromMask, and the start
\* of extractFrames up to the first seek
RunMask ==
    /\ runPc = "mask"
    /\ \E found \in BOOLEAN :
          IF runKind = "opencv" /\ ~found
          THEN RunThrows("noBoundingBox")
          ELSE /\ runPc' = "extract"
               /\ UNCHANGED runError
    /\ UNCHANGED <<isProcessing, progress, runKind, nRuns, duration, currentTime,
                   frames, stepIndex, stepPhase, processedFrames, trackCalls,
                   progressLog, trackerInitialized, cleanupCalls>>
    /\ UNCHANGED nonRunVars

\* video.onseeked, img.onload and the captureFrame call it ends with
OnSeeked ==
    /\ runPc = "extract"
    /\ frames' = Append(frames, currentTime)
    /\ progressLog' = Append(progressLog,
                             [by |-> "extractFrames", at |-> Len(frames),
                              value |-> extractProgress(currentTime, duration)])
    /\ progress' = extractProgress(currentTime, duration)
    /\ currentTime' = currentTime + TicksPerFrame
    /\ runPc' = IF currentTime' > duration THEN "init" ELSE "extract"
    /\ UNCHANGED <<isProcessing, runKind, runError, nRuns, duration, stepIndex,
                   stepPhase, processedFrames, trackCalls, trackerInitialized,
                   cleanupCalls>>
    /\ UNCHANGED nonRunVars

\* video.onerror during extraction
OnVideoError ==
    /\ runPc = "extract"
    /\ RunThrows("extractFailed")
    /\ UNCHANGED <<isProcessing, progress, runKind, nRuns, duration, currentTime,
                   frames, stepIndex, stepPhase, processedFrames, trackCalls,
                   progressLog, trackerInitialized, cleanupCalls>>
    /\ UNCHANGED nonRunVars

\* new tracker, initialize (and setReference), up to the first processFrame call
RunTrackerInit ==
    /\ runPc = "init"
    /\ \E ok \in BOOLEAN :
          IF ok
          THEN /\ trackerInitialized' = TRUE
               /\ runPc' = "frames"
               /\ stepPhase' = "track"
               /\ UNCHANGED runError
          ELSE /\ RunThrows("initializeFailed")
               /\ UNCHANGED <<trackerInitialized, stepPhase>>
    /\ UNCHANGED <<isProcessing, progress, runKind, nRuns, duration, currentTime,
                   frames, stepIndex, processedFrames, trackCalls, progressLog,
                   cleanupCalls>>
    /\ UNCHANGED nonRunVars

\* processFrame(frames[i], i) up to the inpaint call: tracker.track for i > 0
StepTrack ==
    /\ runPc = "frames"
    /\ stepPhase = "track"
    /\ \E ok \in BOOLEAN :
          IF stepIndex = 0
          THEN /\ stepPhase' = "inpaint"
               /\ UNCHANGED <<trackCalls, runError, runPc>>
          ELSE /\ trackCalls' = Append(trackCalls, stepIndex)
               /\ IF ok
                  THEN /\ stepPhase' = "inpaint"
                       /\ UNCHANGED <<runError, runPc>>
                  ELSE /\ RunThrows("trackFailed")
                       /\ UNCHANGED stepPhase
    /\ UNCHANGED <<isProcessing, progress, runKind, nRuns, duration, currentTime,
                   frames, stepIndex, processedFrames, progressLog,
                   trackerInitialized, cleanupCalls>>
    /\ UNCHANGED nonRunVars

\* inpaint settles: the rest of the loop body of processFrames and the loop test
StepInpaint ==
    /\ runPc = "frames"
    /\ stepPhase = "inpaint"
    /\ \E ok \in BOOLEAN :
          IF ok
          THEN /\ processedFrames' = Append(processedFrames, stepIndex)
               /\ progressLog' = Append(progressLog,
                                        [by |-> "processFrames", at |-> stepIndex,
                                         value |-> processProgress(stepIndex, Len(frames))])
               /\ progress' = processProgress(stepIndex, Len(frames))
               /\ stepIndex' = nextIndex(stepIndex)
               /\ IF stepIndex' < Len(frames)
                  THEN /\ stepPhase' = "track"
                       /\ UNCHANGED runPc
                  ELSE /\ stepPhase' = "none"
                       /\ runPc' = "cleanup"
               /\ UNCHANGED runError
          ELSE /\ RunThrows("inpaintFailed")
               /\ UNCHANGED <<processedFrames, progressLog, progress, stepIndex,
                              stepPhase>>
    /\ UNCHANGED <<isProcessing, runKind, nRuns, duration, currentTime, frames,
                   trackCalls, trackerInitialized, cleanupCalls>>
    /\ UNCHANGED nonRunVars

\* tracker.cleanup() after processFrames returned, up to combineFramesToVideo
RunCleanup ==
    /\ runPc = "cleanup"
    /\ cleanupCalls' = cleanupCalls + 1
    /\ runPc' = "combine"
    /\ UNCHANGED <<isProcessing, progress, runKind, runError, nRuns, duration,
                   currentTime, frames, stepIndex, stepPhase, processedFrames,
                   trackCalls, progressLog, trackerInitialized>>
    /\ UNCHANGED nonRunVars

\* combineFramesToVideo settles
RunCombine ==
    /\ runPc = "combine"
    /\ \E ok \in BOOLEAN :
          IF ok
          THEN /\ runPc' = "finally"
               /\ UNCHANGED runError
          ELSE RunThrows("combineFailed")
    /\ UNCHANGED <<isProcessing, progress, runKind, nRuns, duration, currentTime,
                   frames, stepIndex, stepPhase, processedFrames, trackCalls,
                   progressLog, trackerInitialized, cleanupCalls>>
    /\ UNCHANGED nonRunVars

\* the catch block (log and alert) when an error was thrown, then the finally block
RunFinally ==
    /\ runPc = "finally"
    /\ isProcessing' = FALSE
    /\ progress' = Fraction(0, 1)
    /\ runPc' = "ended"
    /\ UNCHANGED <<runKind, runError, nRuns, duration, currentTime, frames,
                   stepIndex, stepPhase, processedFrames, trackCalls, progressLog,
                   trackerInitialized, cleanupCalls>>
    /\ UNCHANGED nonRunVars

RunInit ==
    /\ SparseInit
    /\ runPc = "idle"

RunNext ==
    \/ RunStart \/ RunMask \/ OnSeeked \/ OnVideoError \/ RunTrackerInit
    \/ StepTrack \/ StepInpaint \/ RunCleanup \/ RunCombine \/ RunFinally

SpecRun == RunInit /\ [][RunNext]_vars

(***************************************************************************)
(* Claims about the processing run.                                        *)
(***************************************************************************)
\* C16: a run in which a tracker was initialized calls tracker.cleanup() before it
\* ends, on every exit path.
C16_CleanupOnEveryExit ==
    (runPc = "ended" /\ trackerInitialized) => cleanupCalls >= 1

\* processFrames has returned its list to the orchestrator
ProcessFramesReturned ==
    \/ runPc \in {"cleanup", "combine"}
    \/ runPc \in {"finally", "ended"} /\ runError \in {None, Some("combineFailed")}
\* processFrames was left by an error of a frame's step
StepFailed == runError \in {Some("trackFailed"), Some("inpaintFailed")}

\* C17: the tracker is handed frames 1, 2, .. in that order, each once; track for
\* a frame starts only after the step of the frame before it has completed;
\* processFrames returns one result per frame, result i from frame i; when a
\* frame's step fails no later frame is processed and processFrames fails.
C17_FramesInOrderOneAtATime ==
    /\ \A j \in 1..Len(trackCalls) : trackCalls[j] = j
    /\ \A j \in 1..Len(processedFrames) : processedFrames[j] = j - 1
    /\ Len(trackCalls) <= Len(processedFrames)
    /\ Len(processedFrames) <= Len(trackCalls) + 1
    /\ ProcessFramesReturned => Len(processedFrames) = Len(frames)
    /\ StepFailed =>
          /\ runPc \in {"finally", "ended"}
          /\ Len(processedFrames) = stepIndex
          /\ Len(processedFrames) < Len(frames)
          /\ Len(trackCalls) <= stepIndex
          /\ cleanupCalls = 0

\* a run over three frames ended without error: track was called for frames 1 and
\* 2, and the three results are in frame order
C17_Witness ==
    /\ runPc = "ended"
    /\ runError = None
    /\ Len(frames) = 3
    /\ trackCalls = <<1, 2>>
    /\ processedFrames = <<0, 1, 2>>

\* a <= b for progress values
FractionLeq(a, b) == a.num * b.den <= b.num * a.den

SparseFailureDetected == trackOutcome \in {"lost", "threw"}
\* the caller of the last sparse track call got an error signal: an exception, or
\* no box
SparseFailureSurfaced == trackOutcome = "threw" \/ trackRet = None

\* C19: every failure a tracker detects in initialize or track reaches the caller
\* of that call as an error; no path detects a failure, logs it and returns a
\* normal result.
C19_DetectedFailuresAreSurfaced ==
    SparseFailureDetected => SparseFailureSurfaced

(***************************************************************************)
(* One warpMask call on a flow array of any length and a field of any      *)
(* size, an empty one included.                                            *)
(***************************************************************************)
\* longest flow array handed to warpMask
MaxFlowLength == 5

\* field sizes of at most two cells, and the empty ones
AnyFieldDims == {d \in (0..2) \X (0..2) : d[1] * d[2] <= 2}
\* flow arrays of every length up to MaxFlowLength
AnyFlowArrays == UNION {[1..n -> {0, SubPixel}] : n \in 0..MaxFlowLength}

\* new ImageData(w, h) and getImageData(0, 0, w, h) reject a zero width or height
\* (raftTracking.ts:440, 446); warpMask has no check of its own
warpMaskThrows(mask, flow, flowWidth, flowHeight) ==
    flowWidth = 0 \/ flowHeight = 0

WarpSizesInit ==
    /\ SparseInit
    /\ wThrew = FALSE

WarpCallAnySize ==
    /\ wMask = None
    /\ \E mask \in DrawnMasks, d \in AnyFieldDims, flow \in AnyFlowArrays :
          /\ wMask' = Some(mask)
          /\ wFlow' = Some([flow |-> flow, flowWidth |-> d[1], flowHeight |-> d[2]])
          /\ IF warpMaskThrows(mask, flow, d[1], d[2])
             THEN /\ wThrew' = TRUE
                  /\ wOut' = None
             ELSE /\ wThrew' = FALSE
                  /\ wOut' = Some(warpMask(mask, flow, d[1], d[2]))
    /\ UNCHANGED nonWarpVars

SpecWarpSizes == WarpSizesInit /\ [][WarpCallAnySize]_vars

\* the mask or the field has no area, or the flow array is not 2*flowWidth*flowHeight
\* long
SizeInvariantViolated(m, f) ==
    \/ m.width * m.height = 0
    \/ f.flowWidth * f.flowHeight = 0
    \/ Len(f.flow) # 2 * f.flowWidth * f.flowHeight

\* C20: a warpMask call whose sizes are inconsistent (zero-area mask or field, flow
\* array of another length than 2*flowWidth*flowHeight) throws and returns no mask.
C20_InconsistentSizesThrow ==
    (wMask # None /\ SizeInvariantViolated(wMask[1], wFlow[1])) =>
        /\ wThrew
        /\ wOut = None

(***************************************************************************)
(* Two RAFTMaskTracker instances in one page, their calls interleaved in   *)
(* any order.  Each instance has its own three fields                      *)
(* (raftTracking.ts:33-35); ort.env is one object for the whole page.      *)
(***************************************************************************)
\* frames tracked per instance
MaxPairFrames == 1

Instances == {1, 2}
nonPairVars == <<sparseVars, warpVars, sampleVars, raftVars, runVars, boxVars, farnebackVars, matVars, buttonVars, extractVars, combineVars>>

\* what the page offers: SharedArrayBuffer, and navigator.hardwareConcurrency
\* (0 when the browser does not report it)
Pages == [sharedArrayBuffer : BOOLEAN, hardwareConcurrency : {0, 2, 8}]

\* ort.env as the runtime's script leaves it: nothing set by this code
LoadedOrtEnv ==
    [wasmPaths |-> None, numThreads |-> None, simd |-> None, proxy |-> None,
     initTimeout |-> None, powerPreference |-> None, forceFallbackAdapter |-> None]

\* ort.env after the assignments of initialize (raftTracking.ts:51-81); nothing is
\* assigned when the runtime is missing, initialize throws before (lines 46-48)
configuredOrtEnv(env, pg, initEnv) ==
    IF initEnv = "ortMissing" THEN env
    ELSE [wasmPaths |-> Some("cdn"),
          numThreads |-> IF pg.sharedArrayBuffer
                         THEN Some(Min(IF pg.hardwareConcurrency = 0 THEN 4
                                       ELSE pg.hardwareConcurrency, 4))
                         ELSE Some(1),
          simd |-> Some(TRUE),
          proxy |-> Some(TRUE),
          initTimeout |-> Some(60000),
          powerPreference |-> Some("high-performance"),
          forceFallbackAdapter |-> Some(FALSE)]

\* an instance as constructed (raftTracking.ts:33-35)
NewTracker == [raftSession |-> None, previousFrame |-> None, currentMask |-> None]

\* the masks and flow fields of the two-instance model: one pixel
PairMasks == {MaskOf(1, 1, bg, st) : bg \in Backgrounds, st \in SUBSET {0}}
PairFlows == {f \in RaftFlows : f.flowWidth = 1 /\ f.flowHeight = 1}
PairResults ==
    {r \in InferenceResults : r.kind = "flow" => r.out[1] \in PairFlows}

\* the page loads the runtime; the editor constructs the two trackers
PageLoad ==
    /\ page = None
    /\ \E pg \in Pages : page' = Some(pg)
    /\ ortEnv' = Some(LoadedOrtEnv)
    /\ pairTrackers' = Some([t \in Instances |-> NewTracker])
    /\ pairLast' = None
    /\ UNCHANGED nonPairVars

\* instance t: initialize (raftTracking.ts:37-231)
PairInitialize ==
    /\ page # None
    /\ \E t \in Instances, initEnv \in InitializeEnvs :
          /\ pairTrackers[1][t].raftSession = None
          /\ ortEnv' = Some(configuredOrtEnv(ortEnv[1], page[1], initEnv))
          /\ pairTrackers' =
                Some([pairTrackers[1] EXCEPT ![t].raftSession =
                        IF initializeOutcome(initEnv) = "initialized"
                        THEN sessionCreated(initEnv) ELSE @])
          /\ pairLast' = Some(<<t, "initialize">>)
    /\ UNCHANGED page
    /\ UNCHANGED nonPairVars

\* instance t: setReference (raftTracking.ts:236-240) with frame 0 of its video
PairSetReference ==
    /\ page # None
    /\ \E t \in Instances, mask \in PairMasks :
          /\ pairTrackers[1][t].currentMask = None
          /\ pairTrackers' =
                Some([pairTrackers[1] EXCEPT
                        ![t].previousFrame = Some(imageToImageData(RaftFrame(0, <<2, 1>>))),
                        ![t].currentMask = Some(mask)])
          /\ pairLast' = Some(<<t, "setReference">>)
    /\ UNCHANGED <<page, ortEnv>>
    /\ UNCHANGED nonPairVars

\* instance t: track (raftTracking.ts:246-280) with the next frame of its video
PairTrack ==
    /\ page # None
    /\ \E t \in Instances, r \in PairResults :
          LET tr == pairTrackers[1][t]
              ready == tr.raftSession # None /\ tr.previousFrame # None
                       /\ tr.currentMask # None
              nextFrame == RaftFrame(tr.previousFrame[1].id + 1, <<2, 1>>)
              f == r.out[1]
          IN  /\ ready => tr.previousFrame[1].id < MaxPairFrames
              /\ pairTrackers' =
                    IF ready /\ computeOpticalFlow(tr.previousFrame[1],
                                                   imageToImageData(nextFrame), r) = "ok"
                    THEN Some([pairTrackers[1] EXCEPT
                            ![t].previousFrame = Some(imageToImageData(nextFrame)),
                            ![t].currentMask =
                                Some(warpMask(tr.currentMask[1], f.flow,
                                              f.flowWidth, f.flowHeight))])
                    ELSE pairTrackers
              /\ pairLast' = Some(<<t, "track">>)
    /\ UNCHANGED <<page, ortEnv>>
    /\ UNCHANGED nonPairVars

\* instance t: cleanup (raftTracking.ts:646-650)
PairCleanup ==
    /\ page # None
    /\ \E t \in Instances :
          /\ pairTrackers' =
                Some([pairTrackers[1] EXCEPT
                        ![t].previousFrame = None,
                        ![t].currentMask = None,
                        ![t].raftSession = sessionAfterCleanup(@)])
          /\ pairLast' = Some(<<t, "cleanup">>)
    /\ UNCHANGED <<page, ortEnv>>
    /\ UNCHANGED nonPairVars

PairInit ==
    /\ SparseInit
    /\ page = None

PairNext ==
    PageLoad \/ PairInitialize \/ PairSetReference \/ PairTrack \/ PairCleanup

SpecPair == PairInit /\ [][PairNext]_vars

\* C21 as stated: whatever calls are made on the two instances, in any order, no
\* call writes state shared between the instances or global to the engine; here,
\* no tracker call changes the runtime's configuration object.
C21_NoSharedWrites ==
    [][page # None => ortEnv' = ortEnv]_vars

(***************************************************************************)
(* Bounding-box mode: the callback processVideoWithOpenCV hands to         *)
(* processFrames (VideoEditor.tsx:277-297) and createMaskFromBBox          *)
(* (objectTracking.ts:61-80).  Box coordinates are numbers, not integers:  *)
(* track adds a median of float displacements to x and y                   *)
(* (objectTracking.ts:231-244).  They are kept in coordinate units.        *)
(***************************************************************************)
\* index of the last frame of the video
MaxBoxFrames == 2

nonBoxVars == <<sparseVars, warpVars, sampleVars, raftVars, runVars, pairVars, farnebackVars, matVars, buttonVars, extractVars, combineVars>>

BoxFrameSizes == {<<3, 1>>, <<2, 2>>}
\* cv.boundingRect of a contour of the drawn mask: whole pixels, inside the frame
DrawnBoxes(size) ==
    {[x |-> x * SubPixel, y |-> y * SubPixel,
      width |-> w * SubPixel, height |-> h * SubPixel] :
        <<x, y, w, h>> \in
            {q \in (0..(size[1] - 1)) \X (0..(size[2] - 1)) \X (1..size[1]) \X (1..size[2]) :
                q[1] + q[3] <= size[1] /\ q[2] + q[4] <= size[2]}}
\* what track can return for a box b: the box moved anywhere it fits in the frame
\* (objectTracking.ts:237-244; the lost path returns it unmoved)
TrackedBoxes(b, size) ==
    {[b EXCEPT !.x = x, !.y = y] :
        x \in 0..(size[1] * SubPixel - b.width), y \in 0..(size[2] * SubPixel - b.height)}

\* the part of [lo, lo + len) that falls into pixel p, in coordinate units
Overlap(p, lo, len) ==
    Max(0, Min((p + 1) * SubPixel, lo + len) - Max(p * SubPixel, lo))
\* the share of pixel (px, py) that a box covers, out of SubPixel * SubPixel
Coverage(px, py, b) == Overlap(px, b.x, b.width) * Overlap(py, b.y, b.height)

\* createMaskFromBBox: a black canvas of the given size with the box filled white;
\* fillRect blends white into a pixel in proportion to the share it covers
createMaskFromBBox(width, height, b) ==
    ImageData(width, height,
        [i \in 1..(width * height * 4) |->
            LET px == ((i - 1) \div 4) % width
                py == ((i - 1) \div 4) \div width
            IN  IF (i - 1) % 4 = 3 THEN 255
                ELSE (255 * Coverage(px, py, b)) \div (SubPixel * SubPixel)])

\* a callback that keeps the drawn box for every frame
DrawnBoxAlways(index, drawn, tracked) == drawn
\* currentBBox of the callback (VideoEditor.tsx:280-286): the drawn box for frame 0
\* and when track returned null, else the box track returned
boxForFrame(index, drawn, tracked) ==
    IF index > 0 /\ tracked # None THEN tracked[1] ELSE drawn

\* getBoundingBoxFromMask found a box, the frames were extracted, and
\* tracker.initialize(frames[0], bbox) returned
BoxModeStart ==
    /\ boxPc = "idle"
    /\ \E size \in BoxFrameSizes :
          /\ boxFrameSize' = Some(size)
          /\ \E b \in DrawnBoxes(size) : initialBox' = Some(b)
    /\ boxPc' = "track"
    /\ UNCHANGED <<boxIndex, currentBBox, boxTrackCalls, inpaintCalls>>
    /\ UNCHANGED nonBoxVars

\* the callback for frame boxIndex up to createMaskFromBBox: tracker.track(frame)
\* for index > 0.  An initialized tracker returns a box or throws; the box it
\* returns is its own box moved.
BoxModeTrack ==
    /\ boxPc = "track"
    /\ IF boxIndex = 0
       THEN /\ currentBBox' = Some(boxForFrame(boxIndex, initialBox[1], None))
            /\ boxPc' = "mask"
            /\ UNCHANGED boxTrackCalls
       ELSE \E threw \in BOOLEAN :
               IF threw
               THEN /\ boxTrackCalls' = Append(boxTrackCalls,
                                               [index |-> boxIndex, ret |-> None])
                    /\ boxPc' = "failed"
                    /\ UNCHANGED currentBBox
               ELSE \E b \in TrackedBoxes(initialBox[1], boxFrameSize[1]) :
                       /\ boxTrackCalls' = Append(boxTrackCalls,
                                                  [index |-> boxIndex, ret |-> Some(b)])
                       /\ currentBBox' =
                             Some(boxForFrame(boxIndex, initialBox[1], Some(b)))
                       /\ boxPc' = "mask"
    /\ UNCHANGED <<boxFrameSize, initialBox, boxIndex, inpaintCalls>>
    /\ UNCHANGED nonBoxVars

\* the rest of the callback: createMaskFromBBox and the inpaint call; then the
\* loop of processFrames moves on
BoxModeMask ==
    /\ boxPc = "mask"
    /\ inpaintCalls' =
          Append(inpaintCalls,
                 [index |-> boxIndex,
                  mask |-> createMaskFromBBox(boxFrameSize[1][1], boxFrameSize[1][2],
                                              currentBBox[1])])
    /\ boxIndex' = nextIndex(boxIndex)
    /\ boxPc' = IF boxIndex' > MaxBoxFrames THEN "done" ELSE "track"
    /\ UNCHANGED <<boxFrameSize, initialBox, currentBBox, boxTrackCalls>>
    /\ UNCHANGED nonBoxVars

BoxModeInit ==
    /\ SparseInit
    /\ boxPc = "idle"

BoxModeNext == BoxModeStart \/ BoxModeTrack \/ BoxModeMask

SpecBoxMode == BoxModeInit /\ [][BoxModeNext]_vars

(***************************************************************************)
(* Claims about bounding-box mode.                                         *)
(***************************************************************************)
\* RGBA of pixel (px, py) of a mask
PixelOf(m, px, py) ==
    [c \in 1..4 |-> m.data[(py * m.width + px) * 4 + c]]
\* the track calls made for frame i
TrackCallsFor(i) == {j \in 1..Len(boxTrackCalls) : boxTrackCalls[j].index = i}
\* the box the mask of inpaint call c must show: the drawn box for frame 0, the
\* box returned by the frame's track call for the others
BoxShown(c) ==
    IF c.index = 0 THEN initialBox[1]
    ELSE boxTrackCalls[CHOOSE j \in TrackCallsFor(c.index) : TRUE].ret[1]
\* frame 0 was not tracked; every other frame handed to inpaint was tracked once
TrackedOncePerFrame ==
    /\ TrackCallsFor(0) = {}
    /\ \A j \in 1..Len(inpaintCalls) :
          /\ inpaintCalls[j].index = j - 1
          /\ j > 1 => Cardinality(TrackCallsFor(j - 1)) = 1
\* the mask is white on the pixels the box covers and black on the others, and has
\* no other pixel
ExactlyTheBox(m, b) ==
    \A px \in 0..(m.width - 1), py \in 0..(m.height - 1) :
        /\ PixelOf(m, px, py) \in {White, OpaqueBlack}
        /\ Coverage(px, py, b) = SubPixel * SubPixel => PixelOf(m, px, py) = White
        /\ Coverage(px, py, b) = 0 => PixelOf(m, px, py) = OpaqueBlack
\* the mask is white on the pixels the box covers whole, black on the pixels it
\* does not touch, and an opaque grey on the pixels it covers in part
TheBoxWithBlendedEdge(m, b) ==
    \A px \in 0..(m.width - 1), py \in 0..(m.height - 1) :
        LET p == PixelOf(m, px, py)
        IN  /\ p[1] = p[2] /\ p[2] = p[3] /\ p[4] = 255
            /\ Coverage(px, py, b) = SubPixel * SubPixel => p = White
            /\ Coverage(px, py, b) = 0 => p = OpaqueBlack
            /\ Coverage(px, py, b) \in 1..(SubPixel * SubPixel - 1)
                  => 0 < p[1] /\ p[1] < 255
WholePixels(b) == b.x % SubPixel = 0 /\ b.y % SubPixel = 0

MaxFarnebackCells == 2

nonFarnebackVars ==
    <<sparseVars, warpVars, sampleVars, raftVars, runVars, pairVars, boxVars, matVars, buttonVars, extractVars, combineVars>>

\* displacement components calcOpticalFlowFarneback reports, in coordinate units
FarnebackComponents == {0, 1, SubPixel}
\* the Mat calcOpticalFlowFarneback fills for two gray frames of size w x h: one
\* (dx, dy) pair per pixel, interleaved, CV_32FC2
FarnebackMats(w, h) ==
    {[cols |-> w, rows |-> h, data32F |-> data] :
        data \in [1..(2 * w * h) -> FarnebackComponents]}

\* a source index that takes the Mat for planar
srcIdxPlanar(x, y, flowWidth) == y * flowWidth + x
\* srcIdx of the conversion loop (raftTracking.ts:796)
srcIdx(x, y, flowWidth) == (y * flowWidth + x) * 2

\* flowData after the conversion loop (raftTracking.ts:790-808): element k was
\* written by the iteration with dstIdx = k (dx) or flowWidth*flowHeight + dstIdx = k
flowDataOf(flow) ==
    LET flowWidth == flow.cols
        flowHeight == flow.rows
    IN  [i \in 1..(flowWidth * flowHeight * 2) |->
            LET k == i - 1
                dstIdx == IF k < flowWidth * flowHeight THEN k
                          ELSE k - flowWidth * flowHeight
                x == dstIdx % flowWidth
                y == dstIdx \div flowWidth
            IN  IF k < flowWidth * flowHeight
                THEN At(flow.data32F, srcIdx(x, y, flowWidth))
                ELSE At(flow.data32F, srcIdx(x, y, flowWidth) + 1)]

\* what computeOpticalFlow returns for the Mat the flow call filled
farnebackOpticalFlow(flow) ==
    [flow |-> flowDataOf(flow), flowWidth |-> flow.cols, flowHeight |-> flow.rows]

\* the masks warped: of the frames' size, white strokes on black
FarnebackMasks(w, h) ==
    {MaskOf(w, h, OpaqueBlack, st) : st \in SUBSET (0..(w * h - 1))}

\* computeOpticalFlow(previousFrameGray, nextFrameGray) and warpMask(currentMask,
\* flow, flowWidth, flowHeight) of one track call
FarnebackFlowCall ==
    /\ fbFlow = None
    /\ \E d \in Dims(MaxFarnebackCells) :
          \E flow \in FarnebackMats(d[1], d[2]), mask \in FarnebackMasks(d[1], d[2]) :
              LET f == farnebackOpticalFlow(flow)
              IN  /\ fbGray' = Some([cols |-> d[1], rows |-> d[2]])
                  /\ fbMat' = Some(flow)
                  /\ fbFlow' = Some(f)
                  /\ fbMask' = Some(mask)
                  /\ fbWarped' = Some(warpMask(mask, f.flow, f.flowWidth, f.flowHeight))
    /\ UNCHANGED nonFarnebackVars

FarnebackInit ==
    /\ SparseInit
    /\ fbFlow = None

SpecFarnebackFlow == FarnebackInit /\ [][FarnebackFlowCall]_vars

\* C23: the field computeOpticalFlow returns has the width and height of the
\* input frames and an array of length 2*W*H in which element y*W+x is the dx and
\* element W*H + y*W+x the dy of the interleaved source pair of pixel (x,y); and
\* warpMask reads it that way: each pixel of the warped mask is the sample of the
\* mask at (x - dx, y - dy) for the pair of that pixel.
C23_FarnebackFlowLayout ==
    fbFlow # None =>
        LET f == fbFlow[1]
            W == fbGray[1].cols
            H == fbGray[1].rows
            src == fbMat[1].data32F
        IN  /\ f.flowWidth = W
            /\ f.flowHeight = H
            /\ Len(f.flow) = 2 * W * H
            /\ \A x \in 0..(W - 1), y \in 0..(H - 1) :
                  LET dx == src[2 * (y * W + x) + 1]
                      dy == src[2 * (y * W + x) + 2]
                  IN  /\ f.flow[y * W + x + 1] = dx
                      /\ f.flow[W * H + y * W + x + 1] = dy
                      /\ Red(fbWarped[1], x, y) =
                            ToUint8Clamped(
                                bilinearSample(fbMask[1], x * SubPixel - dx,
                                               y * SubPixel - dy),
                                SubPixel * SubPixel)

\* a two-pixel row whose pixels move differently, pixel 0 by (0, 1/SubPixel) and
\* pixel 1 one pixel to the right: the white pixel 0 of the mask shows in pixel 1
\* of the warped mask and stays in pixel 0
C23_Witness ==
    /\ fbFlow # None
    /\ fbGray[1].cols = 2
    /\ fbMat[1].data32F = <<0, 1, SubPixel, 0>>
    /\ fbFlow[1].flow = <<0, SubPixel, 1, 0>>
    /\ Red(fbMask[1], 0, 0) = 255 /\ Red(fbMask[1], 1, 0) = 0
    /\ Red(fbWarped[1], 0, 0) = 255 /\ Red(fbWarped[1], 1, 0) = 255

(***************************************************************************)
(* One tracker of either kind, as a processing run creates it              *)
(* (VideoEditor.tsx:268, 372): the calls of SimpleObjectTracker or the     *)
(* calls of the dense tracker, in any order.                               *)
(***************************************************************************)
\* no call was made on the dense / on the sparse tracker
DenseUnused == raftOutcome = "none"
SparseUnused == initOutcome = "none" /\ nTracks = 0

SparseOnlyInitialize == DenseUnused /\ DoInitialize
SparseOnlyTrack == DenseUnused /\ DoTrack
SparseOnlyTrackNull == DenseUnused /\ TrackNull
SparseOnlyTrackThrows == DenseUnused /\ TrackThrows
SparseOnlyCleanup == DenseUnused /\ Cleanup
DenseOnlyInitialize == SparseUnused /\ RaftInitialize
DenseOnlySetReference == SparseUnused /\ RaftSetReference
DenseOnlyTrack == SparseUnused /\ RaftTrack
DenseOnlyCleanup == SparseUnused /\ RaftCleanup

EitherTrackerInit ==
    /\ SparseInit
    /\ DenseUnused

EitherTrackerNext ==
    \/ SparseOnlyInitialize \/ SparseOnlyTrack \/ SparseOnlyTrackNull
    \/ SparseOnlyTrackThrows \/ SparseOnlyCleanup
    \/ DenseOnlyInitialize \/ DenseOnlySetReference \/ DenseOnlyTrack
    \/ DenseOnlyCleanup

SpecEitherTracker == EitherTrackerInit /\ [][EitherTrackerNext]_vars

\* the sparse / the dense tracker holds no reference
SparseNoReference == prevGray = None \/ prevPoints = None \/ bbox = None
DenseNoReference == previousFrame = None \/ currentMask = None

\* C24: a track call on a tracker that holds no reference (never initialized or
\* referenced, or cleaned up) produces no box or mask and changes no field of the
\* tracker: SimpleObjectTracker.track returns null without reading the frame, the
\* dense tracker's track throws before it does anything with the frame.
C24_TrackWithoutReference ==
    [][/\ (SparseNoReference /\ nTracks' = nTracks + 1) =>
              /\ trackOutcome' = "null"
              /\ trackRet' = None
              /\ trackFrame' = trackFrame
              /\ UNCHANGED <<prevFrame, prevGray, prevPoints, bbox>>
       /\ (DenseNoReference /\ nRaftTracks' = nRaftTracks + 1) =>
              /\ raftOutcome' = "notReady"
              /\ raftCall'.ret = None
              /\ raftCall'.steps = <<>>
              /\ UNCHANGED <<raftSession, previousFrame, currentMask>>
              /\ UNCHANGED warpVars]_vars

\* track was called on a sparse tracker after cleanup and returned null with the
\* box still stored; or on a dense tracker that has its session but was cleaned
\* up after a successful track, and it threw
C24_Witness ==
    \/ /\ trackOutcome = "null"
       /\ prevTrackOutcome = "tracked"
       /\ bbox # None
       /\ prevGray = None
    \/ /\ raftOutcome = "notReady"
       /\ prevRaftOutcome = "cleanedUp"
       /\ prev2RaftOutcome = "tracked"
       /\ raftSession # None

(***************************************************************************)
(* The native buffers of a tracker.  A cv.Mat lives in the WebAssembly     *)
(* heap until delete() is called on it; the buffers are numbered in the    *)
(* order they are allocated.  One tracker per behaviour, of either class   *)
(* that allocates buffers (objectTracking.ts:86-281,                       *)
(* raftTracking.ts:661-978).                                               *)
(***************************************************************************)
\* calls made on the tracker
MaxMatCalls == 4

nonMatVars ==
    <<sparseVars, warpVars, sampleVars, raftVars, runVars, pairVars, boxVars,
      farnebackVars, buttonVars, extractVars, combineVars>>

\* the heap after allocating buffers for the names in the sequence
Allocate(heap, names) ==
    heap \o [i \in 1..Len(names) |-> [name |-> names[i], allocated |-> TRUE]]
\* the number of the buffer allocated for names[k] by Allocate(heap, names)
Allocated(heap, k) == Len(heap) + k
\* the heap after delete() on the buffers in ids
Release(heap, ids) ==
    [i \in 1..Len(heap) |-> IF i \in ids THEN [heap[i] EXCEPT !.allocated = FALSE]
                            ELSE heap[i]]
\* the buffers a field holds: none when the field is null
Held(field) == IF field = None THEN {} ELSE {field[1]}
\* the faults after a call that used the buffers in used and released the ones in
\* released, on the heap as the call found it (buffers the call itself created
\* are allocated when it uses or releases them)
FaultsAfter(heap, used, released) ==
    [releasedTwice |-> matFaults.releasedTwice
                       \/ \E i \in released : i <= Len(heap) /\ ~heap[i].allocated,
     usedAfterRelease |-> matFaults.usedAfterRelease
                          \/ \E i \in used : i <= Len(heap) /\ ~heap[i].allocated]

\* a SimpleObjectTracker / FarnebackMaskTracker as constructed
NewSparseFields ==
    [prevFrame |-> None, prevGray |-> None, prevPoints |-> None, bbox |-> FALSE,
     points |-> FALSE]
NewFarnebackFields ==
    [previousFrame |-> None, previousFrameGray |-> None, currentMask |-> FALSE]
FieldsOf(kind) ==
    IF matFields # None THEN matFields[1]
    ELSE IF kind = "sparse" THEN NewSparseFields ELSE NewFarnebackFields

\* the call just made
MatCall(op, ending, before, created) ==
    Some([op |-> op, ending |-> ending, before |-> before, created |-> created])

\* SimpleObjectTracker.initialize (objectTracking.ts:93-165); found tells whether
\* a feature point lies in the box
MatInitialize ==
    /\ matKind \in {"none", "sparse"}
    /\ nMatCalls < MaxMatCalls
    /\ \E found \in BOOLEAN :
          LET f == FieldsOf("sparse")
              names == <<"prevFrame", "prevGray", "mask", "allPoints", "prevPoints">>
              heap == Allocate(mats, names)
              temporaries == {Allocated(mats, 3), Allocated(mats, 4)}
          IN  /\ mats' = Release(heap, temporaries)
              /\ matFields' = Some([prevFrame |-> Some(Allocated(mats, 1)),
                                    prevGray |-> Some(Allocated(mats, 2)),
                                    prevPoints |-> Some(Allocated(mats, 5)),
                                    bbox |-> TRUE,
                                    points |-> found])
              /\ matFaults' = FaultsAfter(mats, {}, {})
              /\ matCall' = MatCall("initialize", "returned", f,
                                    {Allocated(mats, k) : k \in 1..5})
    /\ matKind' = "sparse"
    /\ nMatCalls' = nMatCalls + 1
    /\ UNCHANGED nonMatVars

\* the buffers the lost-tracking path releases, all but err
LostReleasesAllButErr == {1, 2, 3, 4}
\* the buffers the lost-tracking path releases (objectTracking.ts:216-220), by
\* their place in the order track allocates them: currFrame, currGray,
\* nextPoints, status, err
lostReleases == {1, 2, 3, 4, 5}

\* SimpleObjectTracker.track (objectTracking.ts:167-262).  The flow call throws
\* only on an empty point set; with fewer than two valid points tracking is lost.
MatTrack ==
    /\ matKind \in {"none", "sparse"}
    /\ nMatCalls < MaxMatCalls
    /\ LET f == FieldsOf("sparse")
       IN  IF f.prevGray = None \/ f.prevPoints = None \/ ~f.bbox
           THEN /\ matCall' = MatCall("track", "null", f, {})
                /\ matFields' = Some(f)
                /\ matFaults' = FaultsAfter(mats, {}, {})
                /\ UNCHANGED mats
           ELSE \E ending \in {"threw", "lost", "tracked"} :
                   LET names == <<"currFrame", "currGray", "nextPoints", "status", "err">>
                       heap == Allocate(mats, names)
                       created == {Allocated(mats, k) : k \in 1..5}
                       used == Held(f.prevGray) \cup Held(f.prevPoints)
                       old == Held(f.prevFrame) \cup Held(f.prevGray)
                              \cup Held(f.prevPoints)
                   IN  /\ ending = "threw" => ~f.points
                       /\ ending = "tracked" => f.points
                       /\ matCall' = MatCall("track", ending, f, created)
                       /\ mats' =
                             IF ending = "threw" THEN heap
                             ELSE IF ending = "lost"
                             THEN Release(heap, {Allocated(mats, k) : k \in lostReleases})
                             ELSE Release(heap, old \cup {Allocated(mats, 4),
                                                          Allocated(mats, 5)})
                       /\ matFields' =
                             IF ending = "tracked"
                             THEN Some([f EXCEPT !.prevFrame = Some(Allocated(mats, 1)),
                                                 !.prevGray = Some(Allocated(mats, 2)),
                                                 !.prevPoints = Some(Allocated(mats, 3))])
                             ELSE Some(f)
                       /\ matFaults' =
                             FaultsAfter(mats, used,
                                         IF ending = "tracked" THEN old ELSE {})
    /\ matKind' = "sparse"
    /\ nMatCalls' = nMatCalls + 1
    /\ UNCHANGED nonMatVars

\* SimpleObjectTracker.cleanup (objectTracking.ts:265-278)
MatCleanup ==
    /\ matKind \in {"none", "sparse"}
    /\ nMatCalls < MaxMatCalls
    /\ LET f == FieldsOf("sparse")
           held == Held(f.prevFrame) \cup Held(f.prevGray) \cup Held(f.prevPoints)
       IN  /\ mats' = Release(mats, held)
           /\ matFields' = Some([f EXCEPT !.prevFrame = None, !.prevGray = None,
                                          !.prevPoints = None])
           /\ matFaults' = FaultsAfter(mats, {}, held)
           /\ matCall' = MatCall("cleanup", "returned", f, {})
    /\ matKind' = "sparse"
    /\ nMatCalls' = nMatCalls + 1
    /\ UNCHANGED nonMatVars

\* FarnebackMaskTracker.setReference (raftTracking.ts:681-695)
MatSetReference ==
    /\ matKind \in {"none", "farneback"}
    /\ nMatCalls < MaxMatCalls
    /\ LET f == FieldsOf("farneback")
           heap == Allocate(mats, <<"previousFrame", "previousFrameGray">>)
       IN  /\ mats' = heap
           /\ matFields' = Some([previousFrame |-> Some(Allocated(mats, 1)),
                                 previousFrameGray |-> Some(Allocated(mats, 2)),
                                 currentMask |-> TRUE])
           /\ matFaults' = FaultsAfter(mats, {}, {})
           /\ matCall' = MatCall("setReference", "returned", f,
                                 {Allocated(mats, 1), Allocated(mats, 2)})
    /\ matKind' = "farneback"
    /\ nMatCalls' = nMatCalls + 1
    /\ UNCHANGED nonMatVars

\* FarnebackMaskTracker.track (raftTracking.ts:701-741) with computeOpticalFlow
\* (746-822), whose flow call may throw
MatDenseTrack ==
    /\ matKind \in {"none", "farneback"}
    /\ nMatCalls < MaxMatCalls
    /\ LET f == FieldsOf("farneback")
       IN  IF f.previousFrameGray = None \/ ~f.currentMask
           THEN /\ matCall' = MatCall("track", "threwNotReady", f, {})
                /\ matFields' = Some(f)
                /\ matFaults' = FaultsAfter(mats, {}, {})
                /\ UNCHANGED mats
           ELSE \E ending \in {"threw", "tracked"} :
                   LET names == <<"nextFrameMat", "nextFrameGray", "flow">>
                       heap == Allocate(mats, names)
                       created == {Allocated(mats, k) : k \in 1..3}
                       used == Held(f.previousFrameGray)
                       old == Held(f.previousFrameGray) \cup Held(f.previousFrame)
                   IN  /\ matCall' = MatCall("track", ending, f, created)
                       /\ mats' =
                             IF ending = "threw"
                             THEN Release(heap, {Allocated(mats, 3)})
                             ELSE Release(heap, old \cup {Allocated(mats, 3)})
                       /\ matFields' =
                             IF ending = "tracked"
                             THEN Some([f EXCEPT
                                     !.previousFrame = Some(Allocated(mats, 1)),
                                     !.previousFrameGray = Some(Allocated(mats, 2))])
                             ELSE Some(f)
                       /\ matFaults' =
                             FaultsAfter(mats, used,
                                         IF ending = "tracked" THEN old ELSE {})
    /\ matKind' = "farneback"
    /\ nMatCalls' = nMatCalls + 1
    /\ UNCHANGED nonMatVars

\* FarnebackMaskTracker.cleanup (raftTracking.ts:964-977)
MatDenseCleanup ==
    /\ matKind \in {"none", "farneback"}
    /\ nMatCalls < MaxMatCalls
    /\ LET f == FieldsOf("farneback")
           held == Held(f.previousFrame) \cup Held(f.previousFrameGray)
       IN  /\ mats' = Release(mats, held)
           /\ matFields' = Some([f EXCEPT !.previousFrame = None,
                                          !.previousFrameGray = None,
                                          !.currentMask = FALSE])
           /\ matFaults' = FaultsAfter(mats, {}, held)
           /\ matCall' = MatCall("cleanup", "returned", f, {})
    /\ matKind' = "farneback"
    /\ nMatCalls' = nMatCalls + 1
    /\ UNCHANGED nonMatVars

MatsInit ==
    /\ SparseInit
    /\ matKind = "none"

MatsNext ==
    \/ MatInitialize \/ MatTrack \/ MatCleanup
    \/ MatSetReference \/ MatDenseTrack \/ MatDenseCleanup

SpecMats == MatsInit /\ [][MatsNext]_vars

\* the buffers still allocated
Unreleased == {i \in 1..Len(mats) : mats[i].allocated}

\* C25: when SimpleObjectTracker.track takes the tracking-lost path, the reference
\* frame, the reference gray frame and the reference point set are the ones the
\* tracker held before the call, still allocated, and every buffer the call
\* created has been released.
C25_LostPathKeepsReference ==
    (matKind = "sparse" /\ matCall # None /\ matCall[1].op = "track"
     /\ matCall[1].ending = "lost") =>
        /\ matFields[1] = matCall[1].before
        /\ \A i \in Held(matFields[1].prevFrame) \cup Held(matFields[1].prevGray)
                    \cup Held(matFields[1].prevPoints) : mats[i].allocated
        /\ \A i \in matCall[1].created : ~mats[i].allocated

\* tracking was lost on the second track call after initialize: the tracker holds
\* the three buffers of the first track call, and the five the second one created
\* are released
C25_Witness ==
    /\ matKind = "sparse"
    /\ nMatCalls = 3
    /\ matCall[1].op = "track"
    /\ matCall[1].ending = "lost"
    /\ matFields[1].prevFrame = Some(6)
    /\ matFields[1].prevGray = Some(7)
    /\ matFields[1].prevPoints = Some(8)
    /\ matCall[1].created = 11..15
    /\ Unreleased = {6, 7, 8}

RunSettles ==
    /\ WF_vars(RunMask)
    /\ WF_vars(OnSeeked \/ OnVideoError)
    /\ WF_vars(RunTrackerInit)
    /\ WF_vars(StepTrack)
    /\ WF_vars(StepInpaint)
    /\ WF_vars(RunCleanup)
    /\ WF_vars(RunCombine)
    /\ WF_vars(RunFinally)

SpecRunSettles == SpecRun /\ RunSettles

\* C27: every run that sets isProcessing to true eventually sets it back to false
\* and progress back to 0, whether it completes or fails at any step, provided
\* each awaited step settles.
C27_ProcessingFlagIsReset ==
    isProcessing ~> (~isProcessing /\ progress = Fraction(0, 1))

\* a run that failed in tracker.track of frame 1, after extraction had reported
\* progress, has ended with the flag and the progress reset
C27_Witness ==
    /\ runPc = "ended"
    /\ runError = Some("trackFailed")
    /\ Len(progressLog) >= 2
    /\ ~isProcessing
    /\ progress = Fraction(0, 1)

(***************************************************************************)
(* The process buttons.  Input events reach either button at any time; a   *)
(* click that invokes onClick starts the orchestrator of that button.      *)
(* React commits the state set in a click handler before the next event is *)
(* dispatched, so every event meets the disabled prop of the current       *)
(* state.                                                                  *)
(***************************************************************************)
\* processing runs started in one behaviour of the buttons
MaxButtonRuns == 2
\* strokes on the canvas
MaxLines == 1

nonButtonVars ==
    <<sparseVars, warpVars, sampleVars, raftVars, pairVars, boxVars, farnebackVars,
      matVars, extractVars, combineVars>>

ProcessButtons == {"opencv", "farneback"}
\* the DOM events Button listens to, and the prop each one calls (Button.tsx:45-71)
ButtonEvents ==
    {"keydown", "click", "pointerdown", "pointerup", "pointerenter", "pointerleave"}
handlerOf(event) ==
    IF event \in {"keydown", "pointerdown"} THEN "onDown"
    ELSE IF event = "click" THEN "onClick"
    ELSE IF event = "pointerup" THEN "onUp"
    ELSE IF event = "pointerenter" THEN "onEnter"
    ELSE "onLeave"

\* the disabled prop of both process buttons (VideoEditor.tsx:488, 495)
processDisabled == isProcessing \/ lineCount = 0

\* a Button that calls its handlers whatever its disabled prop
InvokedAlways(disabled, event) == Some(handlerOf(event))
\* the handler a Button invokes for an event: none when disabled
invoked(disabled, event) == IF disabled THEN None ELSE Some(handlerOf(event))

\* the user draws a stroke or undoes one
EditLines ==
    /\ \E n \in 0..MaxLines : n # lineCount /\ lineCount' = n
    /\ UNCHANGED <<lastInput, ignoredWhileProcessing, runsOverlapped>>
    /\ UNCHANGED runVars
    /\ UNCHANGED nonButtonVars

\* an input event on a process button; a click whose onClick is invoked runs
\* processVideoWith... up to its first await (VideoEditor.tsx:225-232, 342-349)
ButtonInput ==
    /\ nRuns < MaxButtonRuns
    /\ \E button \in ProcessButtons, event \in ButtonEvents :
          LET handler == invoked(processDisabled, event)
          IN  /\ lastInput' = Some([button |-> button, event |-> event,
                                    disabled |-> processDisabled,
                                    processing |-> isProcessing,
                                    invoked |-> handler])
              /\ ignoredWhileProcessing' =
                    (ignoredWhileProcessing \/ (isProcessing /\ handler = None))
              /\ IF handler = Some("onClick")
                 THEN /\ runsOverlapped' =
                            (runsOverlapped \/ runPc \notin {"idle", "ended"})
                      /\ runKind' = button
                      /\ \E length \in 1..MaxDuration : duration' = length
                      /\ nRuns' = nRuns + 1
                      /\ isProcessing' = TRUE
                      /\ progress' = Fraction(0, 1)
                      /\ runPc' = "mask"
                      /\ runError' = None
                      /\ currentTime' = 0
                      /\ frames' = <<>>
                      /\ stepIndex' = 0
                      /\ stepPhase' = "none"
                      /\ processedFrames' = <<>>
                      /\ trackCalls' = <<>>
                      /\ progressLog' = <<>>
                      /\ trackerInitialized' = FALSE
                      /\ cleanupCalls' = 0
                 ELSE /\ UNCHANGED runsOverlapped
                      /\ UNCHANGED runVars
    /\ UNCHANGED lineCount
    /\ UNCHANGED nonButtonVars

ButtonsInit ==
    /\ SparseInit
    /\ lastInput = None

ButtonsNext ==
    \/ EditLines \/ ButtonInput
    \/ RunMask \/ OnSeeked \/ OnVideoError \/ RunTrackerInit
    \/ StepTrack \/ StepInpaint \/ RunCleanup \/ RunCombine \/ RunFinally

SpecButtons == ButtonsInit /\ [][ButtonsNext]_vars

\* C28: at most one processing run is active at any time: while isProcessing is
\* true both process buttons are disabled, a disabled Button invokes none of its
\* handlers for any input event, and no run starts until the one before it has
\* reset isProcessing.
C28_AtMostOneRun ==
    /\ ~runsOverlapped
    /\ isProcessing <=> runPc \notin {"idle", "ended"}
    /\ isProcessing => processDisabled
    /\ lastInput # None =>
          /\ lastInput[1].processing => lastInput[1].disabled
          /\ lastInput[1].disabled => lastInput[1].invoked = None
          /\ ~lastInput[1].disabled => lastInput[1].invoked = Some(handlerOf(lastInput[1].event))

\* the second run was started by a click on the other button after the first run
\* had ended, and during the first run an input had come and invoked nothing
C28_Witness ==
    /\ nRuns = 2
    /\ runPc = "mask"
    /\ isProcessing
    /\ ignoredWhileProcessing
    /\ lastInput[1].event = "click"
    /\ lastInput[1].invoked = Some("onClick")
    /\ ~lastInput[1].processing

(***************************************************************************)
(* extractFrames (part_000:58-132), every seek and every image load        *)
(* completing.  currentTime is a running floating-point sum of 1/fps: after *)
(* k additions it is k/fps rounded, a hair below it, equal to it or a hair *)
(* above it (with fps = 30 the sum is below 6/30 after 6 additions and     *)
(* above 60/30 after 60).  A time is the pair of k and that rounding.      *)
(***************************************************************************)
\* longest video of the extraction model, in ticks
MaxExtractDuration == 8

nonExtractVars ==
    <<sparseVars, warpVars, sampleVars, raftVars, runVars, pairVars, boxVars,
      farnebackVars, matVars, buttonVars, combineVars>>

\* the roundings the sum can have after k additions: 0 and 0 + 1/fps are exact
Roundings(k) == IF k <= 1 THEN {0} ELSE {0 - 1, 0, 1}

\* a loop test that also stops at the duration itself
PastEndInclusive(time, length) == time.k * TicksPerFrame >= length
\* currentTime > duration (part_000:86)
pastEnd(time, length) ==
    \/ time.k * TicksPerFrame > length
    \/ time.k * TicksPerFrame = length /\ time.drift > 0

\* captureFrame (part_000:85-101): resolve, or seek to currentTime
captureFrame(time) ==
    IF pastEnd(time, exDuration')
    THEN /\ exPc' = "resolved"
         /\ UNCHANGED exSeeks
    ELSE /\ exPc' = "seeking"
         /\ exSeeks' = exSeeks + 1

\* the call: the handlers are set and captureFrame runs for time 0
ExtractCall ==
    /\ exPc = "idle"
    /\ \E length \in 0..MaxExtractDuration : exDuration' = length
    /\ captureFrame(exTime)
    /\ UNCHANGED <<exTime, exFrames>>
    /\ UNCHANGED nonExtractVars

\* video.onseeked (part_000:103-122): the frame is drawn and its image starts to load
ExtractSeeked ==
    /\ exPc = "seeking"
    /\ exPc' = "loading"
    /\ UNCHANGED <<exDuration, exTime, exFrames, exSeeks>>
    /\ UNCHANGED nonExtractVars

\* img.onload (part_000:107-120): push, advance currentTime, captureFrame
ExtractLoaded ==
    /\ exPc = "loading"
    /\ exFrames' = Append(exFrames, exTime)
    /\ UNCHANGED exDuration
    /\ \E r \in Roundings(exTime.k + 1) :
          /\ exTime' = [k |-> exTime.k + 1, drift |-> r]
          /\ captureFrame([k |-> exTime.k + 1, drift |-> r])
    /\ UNCHANGED nonExtractVars

ExtractInit ==
    /\ SparseInit
    /\ exPc = "idle"

ExtractNext == ExtractCall \/ ExtractSeeked \/ ExtractLoaded

SpecExtract == ExtractInit /\ [][ExtractNext]_vars /\ WF_vars(ExtractNext)

\* frames are pushed in time order, each time once, none past the duration, and a
\* seek is issued only when every frame sought before has been pushed
ExtractsInOrder ==
    /\ \A j \in 1..Len(exFrames) :
          /\ exFrames[j].k = j - 1
          /\ ~pastEnd(exFrames[j], exDuration)
    /\ exSeeks \in {Len(exFrames), Len(exFrames) + 1}
    /\ exPc \in {"seeking", "loading"} <=> exSeeks = Len(exFrames) + 1
\* the number of times k/fps, k = 0, 1, .., that do not exceed the duration
TimesWithin(length) == length \div TicksPerFrame + 1

MaxCombineFrames == 5

nonCombineVars ==
    <<sparseVars, warpVars, sampleVars, raftVars, runVars, pairVars, boxVars,
      farnebackVars, matVars, buttonVars, extractVars>>

\* sizes of event.data
ChunkSizes == {0, 1}

\* a loop that stops once the last index has been reached
StopDueAtLastIndex(index, length) == index + 1 >= length
\* frameIndex >= frameDataUrls.length (part_000:252)
stopDue(index, length) == index >= length

\* drawNextFrame (part_000:251-275): stop the recorder, or load frame frameIndex
drawNextFrame(index) ==
    IF stopDue(index, cbLength)
    THEN /\ cbStops' = cbStops + 1
         /\ recorder' = IF recorder = "none" THEN recorder ELSE "inactive"
         /\ recorderEvents' = IF recorder = "recording"
                                THEN <<"dataavailable", "stop">>
                                ELSE recorderEvents
         /\ cbPc' = "done"
    ELSE /\ cbPc' = "loading"
         /\ UNCHANGED <<cbStops, recorder, recorderEvents>>

\* the promise executor (part_000:193-198, 203, 280)
CombineCall ==
    /\ cbPc = "idle"
    /\ \E length \in 0..MaxCombineFrames :
          /\ cbLength' = length
          /\ IF length = 0
             THEN /\ cbPromise' = "No frames to combine"
                  /\ cbPc' = "done"
             ELSE /\ cbPc' = "firstLoading"
                  /\ UNCHANGED cbPromise
    /\ UNCHANGED <<frameIndex, cbDrawn, recorder, recorderEvents, chunks, cbStops>>
    /\ UNCHANGED nonCombineVars

\* firstImg.onload (part_000:204-278): the recorder is made and started, the loop begins
CombineFirstLoaded ==
    /\ cbPc = "firstLoading"
    /\ frameIndex' = 0
    /\ cbPc' = IF stopDue(0, cbLength) THEN "done" ELSE "loading"
    /\ cbStops' = IF stopDue(0, cbLength) THEN cbStops + 1 ELSE cbStops
    /\ recorder' = IF stopDue(0, cbLength) THEN "inactive" ELSE "recording"
    /\ recorderEvents' = IF stopDue(0, cbLength)
                           THEN <<"dataavailable", "stop">>
                           ELSE <<>>
    /\ UNCHANGED <<cbLength, cbDrawn, chunks, cbPromise>>
    /\ UNCHANGED nonCombineVars

\* img.onload (part_000:269-273): draw, frameIndex++, setTimeout
CombineFrameLoaded ==
    /\ cbPc = "loading"
    /\ cbDrawn' = Append(cbDrawn, frameIndex)
    /\ frameIndex' = frameIndex + 1
    /\ cbPc' = "timer"
    /\ UNCHANGED <<cbLength, recorder, recorderEvents, chunks, cbStops, cbPromise>>
    /\ UNCHANGED nonCombineVars

\* the timer fires: drawNextFrame
CombineTimer ==
    /\ cbPc = "timer"
    /\ drawNextFrame(frameIndex)
    /\ UNCHANGED <<cbLength, frameIndex, cbDrawn, chunks, cbPromise>>
    /\ UNCHANGED nonCombineVars

\* recorder.ondataavailable (part_000:226-230)
CombineDataAvailable ==
    /\ recorderEvents # <<>>
    /\ Head(recorderEvents) = "dataavailable"
    /\ recorderEvents' = Tail(recorderEvents)
    /\ \E size \in ChunkSizes :
          chunks' = IF size > 0 THEN Append(chunks, size) ELSE chunks
    /\ UNCHANGED <<cbPc, cbLength, frameIndex, cbDrawn, recorder, cbStops, cbPromise>>
    /\ UNCHANGED nonCombineVars

\* recorder.onstop (part_000:232-239); resolving a settled promise does nothing
CombineRecorderStopped ==
    /\ recorderEvents # <<>>
    /\ Head(recorderEvents) = "stop"
    /\ recorderEvents' = Tail(recorderEvents)
    /\ cbPromise' = IF cbPromise = "pending" THEN "resolved" ELSE cbPromise
    /\ UNCHANGED <<cbPc, cbLength, frameIndex, cbDrawn, recorder, chunks, cbStops>>
    /\ UNCHANGED nonCombineVars

\* recorder.onerror (part_000:241-244): the recorder gives up by itself
CombineRecorderError ==
    /\ recorder = "recording"
    /\ recorder' = "inactive"
    /\ recorderEvents' = <<"dataavailable", "stop">>
    /\ cbPromise' = IF cbPromise = "pending" THEN "recorder error" ELSE cbPromise
    /\ UNCHANGED <<cbPc, cbLength, frameIndex, cbDrawn, chunks, cbStops>>
    /\ UNCHANGED nonCombineVars

CombineInit ==
    /\ SparseInit
    /\ cbPc = "idle"

CombineNext ==
    \/ CombineCall
    \/ CombineFirstLoaded
    \/ CombineFrameLoaded
    \/ CombineTimer
    \/ CombineDataAvailable
    \/ CombineRecorderStopped
    \/ CombineRecorderError

SpecCombine == CombineInit /\ [][CombineNext]_vars

\* the indices 0 .. n-1 in order
IndicesBelow(n) == [j \in 1..n |-> j - 1]

\* C30: an empty list fails with 'No frames to combine' and no recorder is ever
\* started; otherwise the frames are drawn once each in index order,
\* recorder.stop() is called at most once and only when every frame has been
\* drawn, and the promise resolves only after that call, the recorder inactive.
C30_CombineDrawsThenStops ==
    /\ cbPc # "idle" /\ cbLength = 0 =>
          /\ cbPromise = "No frames to combine"
          /\ recorder = "none"
          /\ cbDrawn = <<>>
    /\ cbPromise = "No frames to combine" => cbLength = 0
    /\ Len(cbDrawn) <= cbLength
    /\ cbDrawn = IndicesBelow(Len(cbDrawn))
    /\ cbStops <= 1
    /\ cbStops = 1 => cbDrawn = IndicesBelow(cbLength)
    /\ cbPc = "done" /\ cbLength > 0 => cbStops = 1
    /\ cbPromise = "resolved" =>
          /\ cbStops = 1
          /\ recorder = "inactive"
          /\ cbLength > 0

\* three frames drawn, the recorder stopped once and the promise resolved
C30_Witness ==
    /\ cbLength = 3
    /\ cbDrawn = <<0, 1, 2>>
    /\ cbStops = 1
    /\ cbPromise = "resolved"
    /\ chunks # <<>>

====
